---- MODULE Spec2Model ----
(***************************************************************************)
(* VoltTrack: local SQLite store (LocalDatabase), remote document store    *)
(* adapter (DirectAppwriteService), reconciler and sync executor           *)
(* (SyncManager) and the sync entry points of VoltTrackApp.                *)
(*                                                                         *)
(* Reading values are binary fixed-point numbers in units of 1/256 kWh     *)
(* (exact as IEEE doubles, and so are their differences); calendar days    *)
(* are integers; a timestamp string is the pair of its textual format and  *)
(* the instant it denotes.                                                 *)
(***************************************************************************)
EXTENDS Integers, Sequences, FiniteSets, TLC

\* ------------------------------------------------------------------ bounds
MaxLog == 5         \* rows of sync_log (each local mutation appends one)
MaxItems == 4       \* items in the list given to process_batch

\* ------------------------------------------------------------- value sets
UserIds == {"u1", "u2"}
MeterIds == {"m1", "m2", "m3"}
ReadingIds == {"r1", "r2", "r3"}
Dates == {1, 2, 3}  \* calendar days (reading_date)
NoRow == "NoRow"

Max(a, b) == IF a >= b THEN a ELSE b

\* datetime.now().isoformat(): "YYYY-MM-DDTHH:MM:SS.ffffff" at instant t.
IsoMicro(t) == [fmt |-> "iso_micro", t |-> t]

\* datetime.now().isoformat() at a whole second: "YYYY-MM-DDTHH:MM:SS".
IsoSec(t) == [fmt |-> "iso_sec", t |-> t]

VARIABLES
  meters,        \* local table meters:   id -> row
  readings,      \* local table readings: id -> row
  sync_log,      \* local table sync_log: rows in AUTOINCREMENT order
  srv_meters,    \* remote collection meters:   $id -> document
  srv_readings,  \* remote collection readings: $id -> document
  comparison,    \* the comparison the application holds (compare_databases)
  run,           \* the sync entry point in progress and its position
  result,        \* what the last sync_local_to_server / sync_server_to_local returned
  last,          \* the last operation called, its arguments and return value
  bp,            \* the BatchProcessor: its cancel_event and the process_batch call
  manual,        \* sync_cancelled and the threads started by run_sync_with_progress
  conn           \* the sqlite3 connection of the LocalDatabase call in progress

store_vars == <<meters, readings, sync_log>>
remote_vars == <<srv_meters, srv_readings>>
sync_vars == <<comparison, run, result>>
aux_vars == <<bp, manual, conn>>
vars == <<meters, readings, sync_log, srv_meters, srv_readings, comparison, run,
          result, last, bp, manual, conn>>

\* The three tables of one SQLite file, as one value.
DB == [meters |-> meters, readings |-> readings, sync_log |-> sync_log]

LogEntry(op, tbl, rid) ==
  [operation |-> op, table_name |-> tbl, record_id |-> rid, synced |-> FALSE]

\* ------------------------------------------------------- LocalDatabase
\* Rows of one meter with reading_date < d, other than row excl.
ReadingsBefore(db, meter_id, d, excl) ==
  {r \in DOMAIN db.readings :
      /\ r # excl
      /\ db.readings[r].meter_id = meter_id
      /\ db.readings[r].reading_date < d}

\* Variant: the query without ORDER BY reading_date DESC.
PreviousResult_Any(db, meter_id, d, excl) == ReadingsBefore(db, meter_id, d, excl)

\* SELECT reading_value ... WHERE meter_id = ? AND reading_date < ?
\* ORDER BY reading_date DESC LIMIT 1: the rows the query may return (rows of
\* the same greatest date are not ordered by the query).
PreviousResult(db, meter_id, d, excl) ==
  LET before == ReadingsBefore(db, meter_id, d, excl)
  IN  {r \in before :
         \A q \in before : db.readings[q].reading_date <= db.readings[r].reading_date}

\* Variant: the delta is stored as it is, without max(0, ...).
Consumption_Signed(db, prev, value) ==
  IF prev # NoRow
    THEN [previous_reading |-> db.readings[prev].reading_value,
          consumption_kwh  |-> value - db.readings[prev].reading_value]
    ELSE [previous_reading |-> value, consumption_kwh |-> 0]

\* previous_reading / consumption_kwh from the fetched row (NoRow: none).
Consumption(db, prev, value) ==
  IF prev # NoRow
    THEN [previous_reading |-> db.readings[prev].reading_value,
          consumption_kwh  |-> Max(0, value - db.readings[prev].reading_value)]
    ELSE [previous_reading |-> value, consumption_kwh |-> 0]

\* Variant: INSERT OR REPLACE, the row of an id already held is rewritten.
add_meter_Upsert(db, md) ==
  [db EXCEPT
     !.meters = [m \in DOMAIN db.meters \cup {md.id} |->
                   IF m = md.id
                     THEN [user_id |-> md.user_id, home_name |-> md.home_name,
                           meter_name |-> md.meter_name, created_at |-> md.created_at]
                     ELSE db.meters[m]],
     !.sync_log = IF md.id \in DOMAIN db.meters THEN @
                  ELSE Append(@, LogEntry("INSERT", "meters", md.id))]

\* add_meter: no-op when the id exists, else insert row + INSERT log entry.
add_meter(db, md) ==
  IF md.id \in DOMAIN db.meters
    THEN db
    ELSE [db EXCEPT
            !.meters = [m \in DOMAIN db.meters \cup {md.id} |->
                          IF m = md.id
                            THEN [user_id |-> md.user_id, home_name |-> md.home_name,
                                  meter_name |-> md.meter_name,
                                  created_at |-> md.created_at]
                            ELSE db.meters[m]],
            !.sync_log = Append(db.sync_log, LogEntry("INSERT", "meters", md.id))]

\* add_reading with the row prev returned by the previous-reading query.
\* The caller guarantees a fresh id (a duplicate id fails the INSERT).
add_reading(db, rd, prev) ==
  LET c == Consumption(db, prev, rd.reading_value)
  IN  [db EXCEPT
         !.readings = [r \in DOMAIN db.readings \cup {rd.id} |->
                         IF r = rd.id
                           THEN [user_id |-> rd.user_id, meter_id |-> rd.meter_id,
                                 reading_value |-> rd.reading_value,
                                 previous_reading |-> c.previous_reading,
                                 consumption_kwh |-> c.consumption_kwh,
                                 reading_date |-> rd.reading_date]
                           ELSE db.readings[r]],
         !.sync_log = Append(db.sync_log, LogEntry("INSERT", "readings", rd.id))]

\* update_reading: unknown id -> nothing changes; else recompute against the
\* row prev returned by the previous-reading query (which excludes the row
\* itself), rewrite the row, append an UPDATE log entry.
update_reading(db, reading_id, reading_value, reading_date, prev) ==
  IF reading_id \notin DOMAIN db.readings
    THEN db
    ELSE LET c == Consumption(db, prev, reading_value)
         IN  [db EXCEPT
                !.readings[reading_id] =
                    [@ EXCEPT !.reading_value = reading_value,
                              !.previous_reading = c.previous_reading,
                              !.consumption_kwh = c.consumption_kwh,
                              !.reading_date = reading_date],
                !.sync_log = Append(db.sync_log,
                                    LogEntry("UPDATE", "readings", reading_id))]

\* Variant: a DELETE entry is logged whether or not the row existed.
delete_reading_AlwaysLog(db, reading_id) ==
  [db EXCEPT
     !.readings = [r \in DOMAIN db.readings \ {reading_id} |-> db.readings[r]],
     !.sync_log = Append(db.sync_log, LogEntry("DELETE", "readings", reading_id))]

\* delete_reading: unknown id -> nothing changes; else delete the row and
\* append a DELETE log entry.
delete_reading(db, reading_id) ==
  IF reading_id \notin DOMAIN db.readings
    THEN db
    ELSE [db EXCEPT
            !.readings = [r \in DOMAIN db.readings \ {reading_id} |-> db.readings[r]],
            !.sync_log = Append(db.sync_log,
                                LogEntry("DELETE", "readings", reading_id))]

\* The meters of one owner with one (home_name, meter_name).
Group(db, user_id, k) ==
  {m \in DOMAIN db.meters :
      /\ db.meters[m].user_id = user_id
      /\ db.meters[m].home_name = k[1]
      /\ db.meters[m].meter_name = k[2]}

\* GROUP BY home_name, meter_name HAVING COUNT(*) > 1, for one owner.
DuplicateGroups(db, user_id) ==
  {k \in {<<db.meters[m].home_name, db.meters[m].meter_name>> :
             m \in {x \in DOMAIN db.meters : db.meters[x].user_id = user_id}} :
      Cardinality(Group(db, user_id, k)) > 1}

\* ORDER BY created_at ASC: the rows that may come first (rows of one
\* created_at are not ordered by the query).
Oldest(db, g) ==
  {m \in g : \A q \in g : db.meters[m].created_at.t <= db.meters[q].created_at.t}

\* KeepChoices without the ORDER BY created_at ASC: any row of the group first.
KeepChoices_Unordered(db, user_id) ==
  {f \in [DuplicateGroups(db, user_id) -> DOMAIN db.meters] :
      \A k \in DuplicateGroups(db, user_id) : f[k] \in Group(db, user_id, k)}

\* Per duplicate group, the row the ordered query may deliver first.
KeepChoices(db, user_id) ==
  {f \in [DuplicateGroups(db, user_id) -> DOMAIN db.meters] :
      \A k \in DuplicateGroups(db, user_id) : f[k] \in Oldest(db, Group(db, user_id, k))}

\* The meters remove_duplicate_meters deletes: all but the first of each group.
RemovedMeters(db, user_id, keep) ==
  UNION {Group(db, user_id, k) \ {keep[k]} : k \in DuplicateGroups(db, user_id)}

\* remove_duplicate_meters: per removed meter, DELETE FROM meters WHERE id,
\* DELETE FROM readings WHERE meter_id, DELETE FROM sync_log WHERE record_id;
\* returns the number of meters removed.
remove_duplicate_meters(db, user_id, keep) ==
  LET removed == RemovedMeters(db, user_id, keep)
  IN  [db |-> [meters |-> [m \in DOMAIN db.meters \ removed |-> db.meters[m]],
               readings |-> [r \in {x \in DOMAIN db.readings :
                                      db.readings[x].meter_id \notin removed} |->
                               db.readings[r]],
               sync_log |-> SelectSeq(db.sync_log,
                                      LAMBDA e : e.record_id \notin removed)],
       removed_count |-> Cardinality(removed)]

\* mark_synced: UPDATE sync_log SET synced = 1 WHERE record_id = ? per id.
\* Variant: UPDATE sync_log SET synced = 1 without the WHERE clause.
mark_synced_All(db, record_ids) ==
  [db EXCEPT
     !.sync_log = [i \in DOMAIN db.sync_log |-> [db.sync_log[i] EXCEPT !.synced = TRUE]]]

mark_synced(db, record_ids) ==
  [db EXCEPT
     !.sync_log = [i \in DOMAIN db.sync_log |->
                     IF db.sync_log[i].record_id \in record_ids
                       THEN [db.sync_log[i] EXCEPT !.synced = TRUE]
                       ELSE db.sync_log[i]]]

\* get_unsynced_changes: rows with synced = 0, oldest first.
get_unsynced_changes(db) ==
  SelectSeq(db.sync_log, LAMBDA e : ~e.synced)

\* get_meters(user_id): the owner's rows (is_active is 1 in every row the
\* program writes), as the dicts the method returns.
get_meters(db, user_id) ==
  {[id |-> m, user_id |-> db.meters[m].user_id, home_name |-> db.meters[m].home_name,
    meter_name |-> db.meters[m].meter_name, created_at |-> db.meters[m].created_at] :
     m \in {x \in DOMAIN db.meters : db.meters[x].user_id = user_id}}

\* get_readings(meter_id): the meter's rows, as the dicts the method returns.
get_readings(db, meter_id) ==
  {[id |-> r, user_id |-> db.readings[r].user_id, meter_id |-> meter_id,
    reading_value |-> db.readings[r].reading_value,
    previous_reading |-> db.readings[r].previous_reading,
    consumption_kwh |-> db.readings[r].consumption_kwh,
    reading_date |-> db.readings[r].reading_date] :
     r \in {x \in DOMAIN db.readings : db.readings[x].meter_id = meter_id}}

SetDB(db) ==
  /\ meters' = db.meters
  /\ readings' = db.readings
  /\ sync_log' = db.sync_log

\* The row the previous-reading query may deliver: NoRow when no row matches.
PrevChoices(db, meter_id, d, excl) ==
  IF PreviousResult(db, meter_id, d, excl) = {}
    THEN {NoRow}
    ELSE PreviousResult(db, meter_id, d, excl)

\* ------------------------------------------------ DirectAppwriteService
\* The two remote collections, as one value.
SRV == [meters |-> srv_meters, readings |-> srv_readings]

SetSRV(srv) ==
  /\ srv_meters' = srv.meters
  /\ srv_readings' = srv.readings

\* What a call returns: a value, or an exception raised to the caller.
Ok(v) == [raised |-> FALSE, value |-> v]
Raised == [raised |-> TRUE]

MeterDoc(srv, m) ==
  [id |-> m, user_id |-> srv.meters[m].user_id, home_name |-> srv.meters[m].home_name,
   meter_name |-> srv.meters[m].meter_name, created_at |-> srv.meters[m].created_at,
   updatedAt |-> srv.meters[m].updatedAt]

ReadingDoc(srv, r) ==
  [id |-> r, user_id |-> srv.readings[r].user_id, meter_id |-> srv.readings[r].meter_id,
   reading_value |-> srv.readings[r].reading_value,
   reading_date |-> srv.readings[r].reading_date]

\* get_user_meters: list_documents(meters, user_id = current user); any
\* failure is re-raised as Exception("Failed to get meters").
get_user_meters(srv, user_id, fail) ==
  IF fail
    THEN Raised
    ELSE Ok({MeterDoc(srv, m) : m \in {x \in DOMAIN srv.meters :
                                          srv.meters[x].user_id = user_id}})

\* get_readings(meter_id, limit): list_documents(readings, meter_id = ...).
srv_get_readings(srv, meter_id, fail) ==
  IF fail
    THEN Raised
    ELSE Ok({ReadingDoc(srv, r) : r \in {x \in DOMAIN srv.readings :
                                            srv.readings[x].meter_id = meter_id}})

\* ID.unique(): an id no document of the collection has (the ids being
\* interchangeable, the first unused one of the pool stands for any).
GenIds == <<"g1", "g2", "g3", "g4">>
Unused(docs) == SelectSeq(GenIds, LAMBDA g : g \notin DOMAIN docs)
CanGenerate(docs) == Len(Unused(docs)) > 0
UniqueId(docs) == Unused(docs)[1]

\* Which remote calls of one push fail for reasons other than an id in use.
NetFaults == {"ok", "list", "create", "fallback", "both"}

\* $updatedAt as the server writes it: "YYYY-MM-DDTHH:MM:SS.fff+00:00".
ServerStamp(t) == [fmt |-> "offset_frac", t |-> t]

\* create_document(collection, document_id, data): adds the document.
create_document(docs, document_id, data) ==
  [d \in DOMAIN docs \cup {document_id} |->
     IF d = document_id THEN data ELSE docs[d]]

\* Variant: no lookup of an existing document before the create.
sync_meter_NoLookup(srv, meter_id, home_name, meter_name, user_id, created_at, net, now) ==
  LET meter_data == [user_id |-> user_id, home_name |-> home_name,
                     meter_name |-> meter_name, created_at |-> created_at,
                     updatedAt |-> ServerStamp(now), by_push |-> TRUE]
  IN  IF net = "list" THEN [raised |-> TRUE, srv |-> srv]
      ELSE IF meter_id \notin DOMAIN srv.meters /\ net \notin {"create", "both"}
        THEN [raised |-> FALSE,
              srv |-> [srv EXCEPT !.meters = create_document(@, meter_id, meter_data)]]
      ELSE IF net \in {"fallback", "both"} THEN [raised |-> TRUE, srv |-> srv]
      ELSE [raised |-> FALSE,
            srv |-> [srv EXCEPT !.meters =
                       create_document(@, UniqueId(srv.meters), meter_data)]]

\* Variant: a failing create under meter_id is re-raised, no second create.
sync_meter_NoFallback(srv, meter_id, home_name, meter_name, user_id, created_at, net, now) ==
  LET existing == {m \in DOMAIN srv.meters :
                     /\ srv.meters[m].user_id = user_id
                     /\ srv.meters[m].meter_name = meter_name
                     /\ srv.meters[m].home_name = home_name}
      meter_data == [user_id |-> user_id, home_name |-> home_name,
                     meter_name |-> meter_name, created_at |-> created_at,
                     updatedAt |-> ServerStamp(now), by_push |-> TRUE]
  IN  IF net = "list" THEN [raised |-> TRUE, srv |-> srv]
      ELSE IF existing # {} THEN [raised |-> FALSE, srv |-> srv]
      ELSE IF meter_id \notin DOMAIN srv.meters /\ net \notin {"create", "both"}
        THEN [raised |-> FALSE,
              srv |-> [srv EXCEPT !.meters = create_document(@, meter_id, meter_data)]]
      ELSE [raised |-> TRUE, srv |-> srv]

\* sync_meter: an existing document with the same (user_id, meter_name,
\* home_name) is returned; else create under meter_id; if that create fails
\* (id in use, or any other error: bare except) create under ID.unique();
\* a failing list or fallback create is re-raised.
sync_meter(srv, meter_id, home_name, meter_name, user_id, created_at, net, now) ==
  LET existing == {m \in DOMAIN srv.meters :
                     /\ srv.meters[m].user_id = user_id
                     /\ srv.meters[m].meter_name = meter_name
                     /\ srv.meters[m].home_name = home_name}
      meter_data == [user_id |-> user_id, home_name |-> home_name,
                     meter_name |-> meter_name, created_at |-> created_at,
                     updatedAt |-> ServerStamp(now), by_push |-> TRUE]
  IN  IF net = "list" THEN [raised |-> TRUE, srv |-> srv]
      ELSE IF existing # {} THEN [raised |-> FALSE, srv |-> srv]
      ELSE IF meter_id \notin DOMAIN srv.meters /\ net \notin {"create", "both"}
        THEN [raised |-> FALSE,
              srv |-> [srv EXCEPT !.meters = create_document(@, meter_id, meter_data)]]
      ELSE IF net \in {"fallback", "both"} THEN [raised |-> TRUE, srv |-> srv]
      ELSE [raised |-> FALSE,
            srv |-> [srv EXCEPT !.meters =
                       create_document(@, UniqueId(srv.meters), meter_data)]]

\* sync_reading: as sync_meter, on (user_id, meter_id, reading_date).
sync_reading(srv, reading_id, meter_id, reading_value, reading_date, user_id, net) ==
  LET existing == {r \in DOMAIN srv.readings :
                     /\ srv.readings[r].user_id = user_id
                     /\ srv.readings[r].meter_id = meter_id
                     /\ srv.readings[r].reading_date = reading_date}
      reading_data == [user_id |-> user_id, meter_id |-> meter_id,
                       reading_value |-> reading_value,
                       reading_date |-> reading_date, by_push |-> TRUE]
  IN  IF net = "list" THEN [raised |-> TRUE, srv |-> srv]
      ELSE IF existing # {} THEN [raised |-> FALSE, srv |-> srv]
      ELSE IF reading_id \notin DOMAIN srv.readings /\ net \notin {"create", "both"}
        THEN [raised |-> FALSE,
              srv |-> [srv EXCEPT !.readings =
                         create_document(@, reading_id, reading_data)]]
      ELSE IF net \in {"fallback", "both"} THEN [raised |-> TRUE, srv |-> srv]
      ELSE [raised |-> FALSE,
            srv |-> [srv EXCEPT !.readings =
                       create_document(@, UniqueId(srv.readings), reading_data)]]

\* ------------------------------------------------------------ SyncManager
\* The seven strptime formats _parse_datetime tries.
ParseFormats ==
  {"offset_frac", "offset", "z_frac", "z", "iso_sec", "space_sec", "date_only"}
NoStamp == [fmt |-> "absent", t |-> 0]
None == [parsed |-> FALSE]

\* Variant: only the date of the string is kept.
_parse_datetime_DateOnly(ts) ==
  IF ts = NoStamp THEN None
  ELSE IF ts.fmt \in ParseFormats THEN [parsed |-> TRUE, t |-> 0]
  ELSE None

\* _parse_datetime: None for an absent string and for a string no format
\* matches (isoformat() with microseconds and no zone matches none);
\* otherwise the instant the string denotes.
_parse_datetime(ts) ==
  IF ts = NoStamp THEN None
  ELSE IF ts.fmt \in ParseFormats THEN [parsed |-> TRUE, t |-> ts.t]
  ELSE None

EmptyComparison ==
  [local_newer |-> <<>>, server_newer |-> <<>>, local_only |-> <<>>,
   server_only |-> <<>>, conflicts |-> <<>>, in_sync |-> <<>>]

\* Variant: the listing is used whether or not the call failed.
_get_server_meters_unchecked(srv, user_id, fail) ==
  get_user_meters(srv, user_id, FALSE).value

\* _get_server_meters_safe: a failure is logged and [] returned.
_get_server_meters_safe(srv, user_id, fail) ==
  IF get_user_meters(srv, user_id, fail).raised
    THEN {}
    ELSE get_user_meters(srv, user_id, fail).value

\* _get_server_readings_safe: a failure is logged and [] returned.
_get_server_readings_safe(srv, meter_id, fail) ==
  IF srv_get_readings(srv, meter_id, fail).raised
    THEN {}
    ELSE srv_get_readings(srv, meter_id, fail).value

\* Iteration order of a set of ids / of reading keys: Python fixes one order
\* per set; the ids being interchangeable, the order below stands for any.
MeterOrder == <<"m1", "m2", "m3", "g1", "g2", "g3", "g4">>
DateOrder == <<1, 2, 3>>
KeyOrder ==
  [i \in 1..(Len(MeterOrder) * Len(DateOrder)) |->
     <<MeterOrder[((i - 1) \div Len(DateOrder)) + 1],
       DateOrder[((i - 1) % Len(DateOrder)) + 1]>>]

\* [f(x) for x in S], S iterated in the order `order`.
ListOf(order, S, f(_)) ==
  LET sel == SelectSeq(order, LAMBDA x : x \in S)
  IN  [i \in 1..Len(sel) |-> f(sel[i])]

ById(dicts, id) == CHOOSE d \in dicts : d.id = id

\* _compare_meters: appends to local_only, server_only, local_newer,
\* server_newer and in_sync.
_compare_meters(local_meters, server_meters, c) ==
  LET server_meter_ids == {m.id : m \in server_meters}
      local_meter_ids == {m.id : m \in local_meters}
      common == local_meter_ids \cap server_meter_ids
      local_updated(id) == _parse_datetime(ById(local_meters, id).created_at)
      server_updated(id) == _parse_datetime(ById(server_meters, id).updatedAt)
      both(id) == local_updated(id).parsed /\ server_updated(id).parsed
      newer(id) == [type |-> "meter", id |-> id,
                    local_data |-> ById(local_meters, id),
                    server_data |-> ById(server_meters, id)]
  IN  [c EXCEPT
         !.local_only = @ \o ListOf(MeterOrder, local_meter_ids \ server_meter_ids,
                           LAMBDA id : [type |-> "meter", id |-> id,
                                        data |-> ById(local_meters, id)]),
         !.server_only = @ \o ListOf(MeterOrder, server_meter_ids \ local_meter_ids,
                           LAMBDA id : [type |-> "meter", id |-> id,
                                        data |-> ById(server_meters, id)]),
         !.local_newer = @ \o ListOf(MeterOrder,
                           {id \in common : both(id) /\
                                            local_updated(id).t > server_updated(id).t},
                           newer),
         !.server_newer = @ \o ListOf(MeterOrder,
                           {id \in common : both(id) /\
                                            server_updated(id).t > local_updated(id).t},
                           newer),
         !.in_sync = @ \o ListOf(MeterOrder,
                           {id \in common : both(id) /\
                                            server_updated(id).t = local_updated(id).t},
                           LAMBDA id : [type |-> "meter", id |-> id])]

\* The key f"{meter_id}_{reading_date[:10]}" of a reading dict.
KeyOf(reading) == <<reading.meter_id, reading.reading_date>>

\* abs(local_value - server_value) in units of 0.005.
AbsDiff(a, b) == IF a >= b THEN a - b ELSE b - a
\* 0.01 kWh lies between 2/256 and 3/256: a difference exceeds 0.01 exactly
\* when it exceeds 2 units.
Tolerance == 2

\* Variant: a difference of exactly the tolerance already counts as a mismatch.
ValueMismatch_AtLeast(local_value, server_value) ==
  AbsDiff(local_value, server_value) >= Tolerance

\* abs(local_value - server_value) > 0.01
ValueMismatch(local_value, server_value) ==
  AbsDiff(local_value, server_value) > Tolerance

\* _compare_readings; local_rep / server_rep give, per key, the dict that is
\* left in local_readings_dict / server_readings_dict (the last one written).
_compare_readings(local_rep, server_rep, c) ==
  LET local_keys == DOMAIN local_rep
      server_keys == DOMAIN server_rep
  IN  [c EXCEPT
         !.local_only = @ \o ListOf(KeyOrder, local_keys \ server_keys,
                           LAMBDA k : [type |-> "reading", key |-> k,
                                       data |-> local_rep[k]]),
         !.server_only = @ \o ListOf(KeyOrder, server_keys \ local_keys,
                           LAMBDA k : [type |-> "reading", key |-> k,
                                       data |-> server_rep[k]]),
         !.conflicts = @ \o ListOf(KeyOrder,
                           {k \in local_keys \cap server_keys :
                              ValueMismatch(local_rep[k].reading_value,
                                            server_rep[k].reading_value)},
                           LAMBDA k : [type |-> "reading", key |-> k,
                                       local_data |-> local_rep[k],
                                       server_data |-> server_rep[k],
                                       conflict_reason |->
                                         <<"Value mismatch", local_rep[k].reading_value,
                                           server_rep[k].reading_value>>]),
         !.in_sync = @ \o ListOf(KeyOrder,
                           {k \in local_keys \cap server_keys :
                              ~ValueMismatch(local_rep[k].reading_value,
                                             server_rep[k].reading_value)},
                           LAMBDA k : [type |-> "reading", key |-> k])]

\* The dicts a {key: reading} loop over `dicts` may end with: one per key.
RepChoices(dicts) ==
  {f \in [{KeyOf(r) : r \in dicts} -> dicts] :
      \A k \in {KeyOf(r) : r \in dicts} : KeyOf(f[k]) = k}

\* local_readings of compare_databases: the readings of the owner's meters.
LocalReadings(db, user_id) ==
  UNION {get_readings(db, m.id) : m \in get_meters(db, user_id)}

\* server_readings of compare_databases: per server meter, what
\* _get_server_readings_safe returns (fault.readings: the meters it fails for).
ServerReadings(srv, user_id, fault) ==
  UNION {_get_server_readings_safe(srv, m.id, m.id \in fault.readings) :
           m \in _get_server_meters_safe(srv, user_id, fault.meters)}

\* Variant: the readings are compared before the meters.
compare_databases_ReadingsFirst(db, srv, user_id, fault, local_rep, server_rep) ==
  IF fault.local
    THEN Ok(EmptyComparison)
    ELSE IF fault.malformed /\ ServerReadings(srv, user_id, fault) # {}
      THEN Ok(_compare_meters(get_meters(db, user_id),
                              _get_server_meters_safe(srv, user_id, fault.meters),
                              EmptyComparison))
      ELSE Ok(_compare_meters(get_meters(db, user_id),
                              _get_server_meters_safe(srv, user_id, fault.meters),
                              _compare_readings(local_rep, server_rep,
                                                EmptyComparison)))

\* compare_databases. fault.local: reading the local store raises;
\* fault.meters / fault.readings: the remote listings that fail;
\* fault.malformed: a fetched remote reading lacks a field _compare_readings
\* reads (KeyError while server_readings_dict is built).
compare_databases(db, srv, user_id, fault, local_rep, server_rep) ==
  IF fault.local
    THEN Ok(EmptyComparison)
    ELSE LET c1 == _compare_meters(get_meters(db, user_id),
                                   _get_server_meters_safe(srv, user_id, fault.meters),
                                   EmptyComparison)
         IN  IF fault.malformed /\ ServerReadings(srv, user_id, fault) # {}
               THEN Ok(c1)
               ELSE Ok(_compare_readings(local_rep, server_rep, c1))

\* _sync_meter_to_server(meter_data).
_sync_meter_to_server(srv, meter_data, net, now) ==
  sync_meter(srv, meter_data.id, meter_data.home_name, meter_data.meter_name,
             meter_data.user_id, meter_data.created_at, net, now)

\* _sync_reading_to_server(reading_data): the call passes consumption_kwh=,
\* a keyword sync_reading does not take, so the call raises TypeError before
\* sync_reading runs.
_sync_reading_to_server(srv, reading_data, net) ==
  [raised |-> TRUE, srv |-> srv]

\* The body of the try block of sync_local_to_server for one item; an item
\* without 'data' raises KeyError.
PushItem(srv, item, net, now) ==
  IF "data" \notin DOMAIN item THEN [raised |-> TRUE, srv |-> srv]
  ELSE IF item.type = "meter" THEN _sync_meter_to_server(srv, item.data, net, now)
  ELSE _sync_reading_to_server(srv, item.data, net)

\* Variant: the pulled meter is written to the table without a log entry.
_sync_meter_to_local_Unlogged(db, meter_data) ==
  IF \E m \in get_meters(db, meter_data.user_id) : m.id = meter_data.id
    THEN [raised |-> TRUE, db |-> db]
    ELSE [raised |-> FALSE,
          db |-> [db EXCEPT !.meters =
                    add_meter(db, [id |-> meter_data.id, user_id |-> meter_data.user_id,
                                   home_name |-> meter_data.home_name,
                                   meter_name |-> meter_data.meter_name,
                                   created_at |-> meter_data.created_at]).meters]]

\* _sync_meter_to_local(meter_data): a meter the owner already has goes to
\* local_db.update_meter, which LocalDatabase does not define
\* (AttributeError); else add_meter.
_sync_meter_to_local(db, meter_data) ==
  IF \E m \in get_meters(db, meter_data.user_id) : m.id = meter_data.id
    THEN [raised |-> TRUE, db |-> db]
    ELSE [raised |-> FALSE,
          db |-> add_meter(db, [id |-> meter_data.id, user_id |-> meter_data.user_id,
                                home_name |-> meter_data.home_name,
                                meter_name |-> meter_data.meter_name,
                                created_at |-> meter_data.created_at])]

\* Variant: add_reading without the look-up of a row of the meter and date.
_sync_reading_to_local_NoCheck(db, reading_data, prev) ==
  IF reading_data.id \in DOMAIN db.readings
    THEN [raised |-> TRUE, db |-> db]
  ELSE [raised |-> FALSE,
        db |-> add_reading(db, [id |-> reading_data.id,
                                user_id |-> reading_data.user_id,
                                meter_id |-> reading_data.meter_id,
                                reading_value |-> reading_data.reading_value,
                                reading_date |-> reading_data.reading_date], prev)]

\* _sync_reading_to_local(reading_data): nothing when a row of the meter has
\* the date; else add_reading (an id already in the table fails the INSERT).
_sync_reading_to_local(db, reading_data, prev) ==
  IF \E r \in DOMAIN db.readings :
        /\ db.readings[r].meter_id = reading_data.meter_id
        /\ db.readings[r].reading_date = reading_data.reading_date
    THEN [raised |-> FALSE, db |-> db]
  ELSE IF reading_data.id \in DOMAIN db.readings
    THEN [raised |-> TRUE, db |-> db]
  ELSE [raised |-> FALSE,
        db |-> add_reading(db, [id |-> reading_data.id,
                                user_id |-> reading_data.user_id,
                                meter_id |-> reading_data.meter_id,
                                reading_value |-> reading_data.reading_value,
                                reading_date |-> reading_data.reading_date], prev)]

\* The body of the try block of sync_server_to_local for one item.
PullItem(db, item, prev) ==
  IF "data" \notin DOMAIN item THEN [raised |-> TRUE, db |-> db]
  ELSE IF item.type = "meter" THEN _sync_meter_to_local(db, item.data)
  ELSE _sync_reading_to_local(db, item.data, prev)

\* The rows the previous-reading query of a pulled reading may return.
PullPrevChoices(db, item) ==
  IF "data" \in DOMAIN item /\ item.type = "reading"
    THEN PrevChoices(db, item.data.meter_id, item.data.reading_date, NoRow)
    ELSE {NoRow}

\* Variant: the first exception ends the loop.
AfterItem_Abort(r, raised) ==
  [r EXCEPT !.i = IF raised THEN Len(r.items) ELSE @ + 1,
            !.success = IF raised THEN @ ELSE @ + 1,
            !.failed = IF raised THEN @ + 1 ELSE @,
            !.outcomes = Append(@, raised),
            !.pushed = IF raised \/ r.dir # "push" THEN @
                       ELSE @ \cup {r.items[r.i + 1].data.id}]

\* Variant: an item that raised is attempted again by the next iteration.
AfterItem_Retry(r, raised) ==
  [r EXCEPT !.i = IF raised THEN @ ELSE @ + 1,
            !.success = IF raised THEN @ ELSE @ + 1,
            !.outcomes = IF raised THEN @ ELSE Append(@, raised),
            !.pushed = IF raised \/ r.dir # "push" THEN @
                       ELSE @ \cup {r.items[r.i + 1].data.id}]

\* One iteration of the for loop of sync_local_to_server /
\* sync_server_to_local: the item is counted in success, or (exception
\* caught) in failed, and the loop goes on. outcomes: per item so far, whether
\* it raised; pushed: the ids pushed without an exception.
AfterItem(r, raised) ==
  [r EXCEPT !.i = @ + 1,
            !.success = IF raised THEN @ ELSE @ + 1,
            !.failed = IF raised THEN @ + 1 ELSE @,
            !.outcomes = Append(@, raised),
            !.pushed = IF raised \/ r.dir # "push" THEN @
                       ELSE @ \cup {r.items[r.i + 1].data.id}]

NoRun == [proc |-> "idle"]
NoComparison == [none |-> TRUE]
NoResult == [none |-> TRUE]

\* A BatchProcessor on which process_batch has not been called.
NoBatch == [pc |-> "idle", cancel |-> FALSE]

\* No LocalDatabase call is in progress: every connection is closed.
NoConn == [pc |-> "closed"]

\* The threads run_sync_with_progress can start; none has been started, and
\* sync_cancelled is False.
ThreadIds == {"t1", "t2"}
NoThread == [pc |-> "none", phase |-> "idle"]
NoThreads == [sync_cancelled |-> FALSE, threads |-> [t \in ThreadIds |-> NoThread]]

\* submit_reading -> LocalDatabase.add_reading with a fresh uuid4 id.
AddReading(id, u, m, v, d) ==
  /\ Len(sync_log) < MaxLog
  /\ id \notin DOMAIN readings
  /\ m \in DOMAIN meters
  /\ \E prev \in PrevChoices(DB, m, d, id) :
       SetDB(add_reading(DB, [id |-> id, user_id |-> u, meter_id |-> m,
                              reading_value |-> v, reading_date |-> d], prev))
  /\ last' = [op |-> "add_reading", id |-> id, ret |-> id]
  /\ UNCHANGED <<aux_vars, remote_vars, sync_vars>>

\* edit dialog -> LocalDatabase.update_reading (returns False for an unknown id).
UpdateReading(id, v, d) ==
  /\ Len(sync_log) < MaxLog
  /\ \E prev \in (IF id \in DOMAIN readings
                     THEN PrevChoices(DB, readings[id].meter_id, d, id)
                     ELSE {NoRow}) :
       SetDB(update_reading(DB, id, v, d, prev))
  /\ last' = [op |-> "update_reading", id |-> id, ret |-> (id \in DOMAIN readings)]
  /\ UNCHANGED <<aux_vars, remote_vars, sync_vars>>

\* delete dialog -> LocalDatabase.delete_reading (returns False for an unknown id).
DeleteReading(id) ==
  /\ Len(sync_log) < MaxLog
  /\ SetDB(delete_reading(DB, id))
  /\ last' = [op |-> "delete_reading", id |-> id, ret |-> (id \in DOMAIN readings)]
  /\ UNCHANGED <<aux_vars, remote_vars, sync_vars>>

\* manage-meters form -> LocalDatabase.add_meter with a fresh uuid4 id.
AddMeter(id, u, h, n, c) ==
  /\ Len(sync_log) < MaxLog
  /\ id \notin DOMAIN meters
  /\ SetDB(add_meter(DB, [id |-> id, user_id |-> u, home_name |-> h,
                          meter_name |-> n, created_at |-> c]))
  /\ last' = [op |-> "add_meter", id |-> id, ret |-> id]
  /\ UNCHANGED <<aux_vars, remote_vars, sync_vars>>

\* load_meters -> LocalDatabase.remove_duplicate_meters(current user).
RemoveDuplicateMeters(u) ==
  /\ \E keep \in KeepChoices(DB, u) :
       /\ SetDB(remove_duplicate_meters(DB, u, keep).db)
       /\ last' = [op |-> "remove_duplicate_meters", user_id |-> u,
                   ret |-> remove_duplicate_meters(DB, u, keep).removed_count,
                   removed |-> RemovedMeters(DB, u, keep),
                   removed_readings |-> {r \in DOMAIN readings :
                       readings[r].meter_id \in RemovedMeters(DB, u, keep)}]
  /\ UNCHANGED <<aux_vars, remote_vars, sync_vars>>

\* ------------------------------------------- pushes (DirectAppwriteService)
\* A caller pushes one meter.
SyncMeter(meter_id, meter_name, user_id, net, now) ==
  /\ CanGenerate(srv_meters)
  /\ LET out == sync_meter(SRV, meter_id, "Main", meter_name, user_id, IsoMicro(1),
                           net, now)
     IN  /\ SetSRV(out.srv)
         /\ last' = [op |-> "sync_meter", key |-> <<user_id, "Main", meter_name>>,
                     raised |-> out.raised,
                     created |-> DOMAIN out.srv.meters \ DOMAIN srv_meters]
  /\ UNCHANGED <<aux_vars, store_vars, sync_vars>>

\* A caller pushes one reading.
SyncReading(reading_id, meter_id, reading_value, reading_date, user_id, net) ==
  /\ CanGenerate(srv_readings)
  /\ LET out == sync_reading(SRV, reading_id, meter_id, reading_value, reading_date,
                             user_id, net)
     IN  /\ SetSRV(out.srv)
         /\ last' = [op |-> "sync_reading", key |-> <<user_id, meter_id, reading_date>>,
                     raised |-> out.raised,
                     created |-> DOMAIN out.srv.readings \ DOMAIN srv_readings]
  /\ UNCHANGED <<aux_vars, store_vars, sync_vars>>

\* ------------------------------------------------- sync (VoltTrackApp)
CurrentUser == "u1"

\* The `if comparison[...]:` blocks of perform_comprehensive_sync, in order.
Blocks == <<"local_only", "server_only", "local_newer", "server_newer", "conflicts">>
BlockDir(n) == IF Blocks[n] \in {"server_only", "server_newer"} THEN "pull" ELSE "push"

\* The first block after block n whose list is not empty (Len(Blocks) + 1:
\* none, control reaches the mark_synced part).
NextBlock(cmp, n) ==
  LET later == {k \in (n + 1)..Len(Blocks) : Len(cmp[Blocks[k]]) > 0}
  IN  IF later = {} THEN Len(Blocks) + 1
      ELSE CHOOSE k \in later : \A j \in later : k <= j

\* The position of an entry point that is about to call sync_local_to_server
\* / sync_server_to_local for block n, or to mark.
AtBlock(proc, cmp, n, pushed, unsynced) ==
  [proc |-> proc, block |-> n,
   dir |-> IF n > Len(Blocks) THEN "mark" ELSE BlockDir(n),
   items |-> IF n > Len(Blocks) THEN <<>> ELSE cmp[Blocks[n]],
   i |-> 0, success |-> 0, failed |-> 0, outcomes |-> <<>>,
   pushed |-> pushed, cmp |-> cmp, unsynced |-> unsynced]

\* Variant: a comparison that settles the change log it has looked at.
compare_databases_stores_Settling(db, srv) ==
  [db |-> [db EXCEPT !.sync_log = [k \in 1..Len(db.sync_log) |->
                                     [db.sync_log[k] EXCEPT !.synced = TRUE]]],
   srv |-> srv]

\* The stores compare_databases leaves: get_meters and get_readings are
\* SELECTs on connections closed without a commit, get_user_meters and the
\* remote get_readings are list_documents calls, and _compare_meters /
\* _compare_readings work on the fetched lists.
compare_databases_stores(db, srv) == [db |-> db, srv |-> srv]

\* check_comprehensive_sync_on_startup, run once after login: the
\* comparison the sync dialogs are then given.
Compare(fault) ==
  /\ run = NoRun
  /\ comparison = NoComparison
  /\ Len(sync_log) < MaxLog
  /\ \E local_rep \in RepChoices(LocalReadings(DB, CurrentUser)),
        server_rep \in RepChoices(ServerReadings(SRV, CurrentUser, fault)) :
       LET ret == compare_databases(DB, SRV, CurrentUser, fault, local_rep, server_rep)
       IN  /\ comparison' = ret.value
           /\ last' = [op |-> "compare_databases", fault |-> fault,
                       raised |-> ret.raised]
  /\ SetDB(compare_databases_stores(DB, SRV).db)
  /\ SetSRV(compare_databases_stores(DB, SRV).srv)
  /\ UNCHANGED <<aux_vars, run, result>>

\* The two tests of check_comprehensive_sync_on_startup that pick a dialog.
ServerEmptyLocalHasData(cmp) ==
  /\ Len(cmp.local_only) + Len(cmp.local_newer) + Len(cmp.in_sync) > 0
  /\ Len(cmp.server_only) + Len(cmp.server_newer) + Len(cmp.in_sync) = 0
SyncNeeded(cmp) ==
  Len(cmp.local_only) + Len(cmp.server_only) + Len(cmp.local_newer)
    + Len(cmp.server_newer) + Len(cmp.conflicts) > 0

\* "Sync All" of the comprehensive sync dialog:
\* perform_comprehensive_sync(comparison), the start of sync_process. The
\* next comparison is made by the next session.
PerformComprehensiveSync ==
  /\ run = NoRun
  /\ comparison # NoComparison
  /\ ~ServerEmptyLocalHasData(comparison)
  /\ SyncNeeded(comparison)
  /\ run' = AtBlock("comprehensive", comparison, NextBlock(comparison, 0), {}, {})
  /\ comparison' = NoComparison
  /\ last' = [op |-> "perform_comprehensive_sync"]
  /\ UNCHANGED <<aux_vars, store_vars, remote_vars, result>>

\* "Upload" of the empty-server overlay:
\* upload_all_local_data_to_server(comparison), the start of upload_process
\* (only local_only is pushed).
UploadAllLocalDataToServer ==
  /\ run = NoRun
  /\ comparison # NoComparison
  /\ ServerEmptyLocalHasData(comparison)
  /\ Len(comparison.local_only) > 0
  /\ run' = AtBlock("upload_all",
                    [EmptyComparison EXCEPT !.local_only = comparison.local_only],
                    1, {}, {})
  /\ comparison' = NoComparison
  /\ last' = [op |-> "upload_all_local_data_to_server"]
  /\ UNCHANGED <<aux_vars, store_vars, remote_vars, result>>

\* The items sync_before_closing builds from the unsynced changes.
ClosingItems(db, user_id) ==
  LET changes == get_unsynced_changes(db)
      found(c) == \/ /\ c.table_name = "meters"
                     /\ \E m \in get_meters(db, user_id) : m.id = c.record_id
                  \/ /\ c.table_name = "readings"
                     /\ c.record_id \in DOMAIN db.readings
      kept == SelectSeq(changes, found)
      item(c) == IF c.table_name = "meters"
                   THEN [type |-> "meter",
                         data |-> ById(get_meters(db, user_id), c.record_id)]
                   ELSE [type |-> "reading",
                         data |-> [id |-> c.record_id,
                                   user_id |-> db.readings[c.record_id].user_id,
                                   meter_id |-> db.readings[c.record_id].meter_id,
                                   reading_value |-> db.readings[c.record_id].reading_value,
                                   consumption_kwh |-> db.readings[c.record_id].consumption_kwh,
                                   reading_date |-> db.readings[c.record_id].reading_date]]
  IN  [k \in 1..Len(kept) |-> item(kept[k])]

UnsyncedIds(db) ==
  {get_unsynced_changes(db)[k].record_id : k \in 1..Len(get_unsynced_changes(db))}

\* "Sync and close" of the closing prompt (shown when there are unsynced
\* changes): sync_before_closing, the start of sync_process; with nothing to
\* push the window closes at once. The next session starts from there.
SyncBeforeClosing ==
  /\ run = NoRun
  /\ Len(sync_log) < MaxLog
  /\ Len(get_unsynced_changes(DB)) > 0
  /\ run' = IF Len(ClosingItems(DB, CurrentUser)) = 0
              THEN NoRun
              ELSE AtBlock("closing",
                           [EmptyComparison EXCEPT
                              !.local_only = ClosingItems(DB, CurrentUser)],
                           1, {}, UnsyncedIds(DB))
  /\ comparison' = NoComparison
  /\ last' = [op |-> "sync_before_closing"]
  /\ UNCHANGED <<aux_vars, store_vars, remote_vars, result>>

ServerTimes == {1, 2}

\* One iteration of the loop of sync_local_to_server.
SyncLocalToServerItem(net, now) ==
  /\ run # NoRun
  /\ run.dir = "push"
  /\ run.i < Len(run.items)
  /\ LET out == PushItem(SRV, run.items[run.i + 1], net, now)
     IN  /\ SetSRV(out.srv)
         /\ run' = AfterItem(run, out.raised)
         /\ last' = [op |-> "sync_item", dir |-> "push", item |-> run.items[run.i + 1],
                     raised |-> out.raised]
  /\ UNCHANGED <<aux_vars, store_vars, comparison, result>>

\* One iteration of the loop of sync_server_to_local.
SyncServerToLocalItem ==
  /\ run # NoRun
  /\ run.dir = "pull"
  /\ run.i < Len(run.items)
  /\ \E prev \in PullPrevChoices(DB, run.items[run.i + 1]) :
       LET out == PullItem(DB, run.items[run.i + 1], prev)
       IN  /\ SetDB(out.db)
           /\ run' = AfterItem(run, out.raised)
           /\ last' = [op |-> "sync_item", dir |-> "pull",
                       item |-> run.items[run.i + 1], raised |-> out.raised]
  /\ UNCHANGED <<aux_vars, remote_vars, comparison, result>>

\* sync_local_to_server / sync_server_to_local returns its results; the
\* entry point goes on to its next non-empty block, or to marking.
SyncReturn ==
  /\ run # NoRun
  /\ run.dir \in {"push", "pull"}
  /\ run.i = Len(run.items)
  /\ result' = [success |-> run.success, failed |-> run.failed, n |-> Len(run.items),
                dir |-> run.dir, outcomes |-> run.outcomes]
  /\ run' = AtBlock(run.proc, run.cmp, NextBlock(run.cmp, run.block), run.pushed,
                    run.unsynced)
  /\ last' = [op |-> "sync_return", dir |-> run.dir]
  /\ UNCHANGED <<aux_vars, store_vars, remote_vars, comparison>>

\* The end of perform_comprehensive_sync and of
\* upload_all_local_data_to_server: every unsynced change is marked synced,
\* then load_meters (which removes duplicate meters).
FinishComprehensiveSync ==
  /\ run # NoRun
  /\ run.proc \in {"comprehensive", "upload_all"}
  /\ run.dir = "mark"
  /\ LET marked == mark_synced(DB, UnsyncedIds(DB))
     IN  \E keep \in KeepChoices(marked, CurrentUser) :
           SetDB(remove_duplicate_meters(marked, CurrentUser, keep).db)
  /\ run' = NoRun
  /\ last' = [op |-> "mark_synced", proc |-> run.proc, record_ids |-> UnsyncedIds(DB),
              pushed |-> run.pushed]
  /\ UNCHANGED <<aux_vars, remote_vars, comparison, result>>

\* The end of sync_before_closing after a push: the changes read at the
\* start are marked synced and the window closes.
FinishClosingSync ==
  /\ run # NoRun
  /\ run.proc = "closing"
  /\ run.dir = "mark"
  /\ SetDB(mark_synced(DB, run.unsynced))
  /\ run' = NoRun
  /\ last' = [op |-> "mark_synced", proc |-> run.proc, record_ids |-> run.unsynced,
              pushed |-> run.pushed]
  /\ UNCHANGED <<aux_vars, remote_vars, comparison, result>>

\* ------------------------------------------------ readings of a local store
ReadingValues == {2000, 2400, 3000}

EmptyFn == [x \in {} |-> x]
EmptyDB == [meters |-> EmptyFn, readings |-> EmptyFn, sync_log |-> <<>>]

MeterData(id, u, h, n, c) ==
  [id |-> id, user_id |-> u, home_name |-> h, meter_name |-> n, created_at |-> c]

\* LocalDatabase() on a fresh file, then two meters added through the UI
\* (VoltTrackApp.add_meter); the remote project is empty and no sync runs.
InitReadings ==
  /\ meters = add_meter(add_meter(EmptyDB,
                  MeterData("m1", "u1", "Main", "M1", IsoMicro(1))),
                  MeterData("m2", "u1", "Main", "M2", IsoMicro(2))).meters
  /\ readings = EmptyFn
  /\ sync_log = add_meter(add_meter(EmptyDB,
                  MeterData("m1", "u1", "Main", "M1", IsoMicro(1))),
                  MeterData("m2", "u1", "Main", "M2", IsoMicro(2))).sync_log
  /\ srv_meters = EmptyFn
  /\ srv_readings = EmptyFn
  /\ comparison = NoComparison
  /\ run = NoRun
  /\ result = NoResult
  /\ last = [op |-> "init"]
  /\ bp = NoBatch
  /\ manual = NoThreads
  /\ conn = NoConn

NextReadings ==
  \/ \E id \in ReadingIds, m \in {"m1", "m2"}, v \in ReadingValues, d \in Dates :
       AddReading(id, "u1", m, v, d)
  \/ \E id \in ReadingIds, v \in ReadingValues, d \in Dates : UpdateReading(id, v, d)
  \/ \E id \in ReadingIds : DeleteReading(id)

SpecReadings == InitReadings /\ [][NextReadings]_vars

\* ------------------------------------------------- meters of a local store
\* (owner, meter_name, creation instant) of the meters added; home is "Main".
MeterInputs == {<<"u1", "M1", 1>>, <<"u1", "M1", 2>>, <<"u1", "M2", 1>>,
                <<"u2", "M1", 1>>}

\* LocalDatabase() on a fresh file; the remote project is empty, no sync runs.
InitMeters ==
  /\ meters = EmptyFn
  /\ readings = EmptyFn
  /\ sync_log = <<>>
  /\ srv_meters = EmptyFn
  /\ srv_readings = EmptyFn
  /\ comparison = NoComparison
  /\ run = NoRun
  /\ result = NoResult
  /\ last = [op |-> "init"]
  /\ bp = NoBatch
  /\ manual = NoThreads
  /\ conn = NoConn

NextMeters ==
  \/ \E id \in MeterIds, i \in MeterInputs :
       AddMeter(id, i[1], "Main", i[2], IsoMicro(i[3]))
  \/ \E m \in DOMAIN meters : AddReading("r1", meters[m].user_id, m, 2000, 1)
  \/ \E u \in UserIds : RemoveDuplicateMeters(u)

SpecMeters == InitMeters /\ [][NextMeters]_vars

\* ------------------------------------------------ one comparison
ReadingData(id, u, m, v, d) ==
  [id |-> id, user_id |-> u, meter_id |-> m, reading_value |-> v, reading_date |-> d]

\* The store after add_meter for each element of mds, in order.
RECURSIVE AddMeters(_, _)
AddMeters(db, mds) ==
  IF mds = <<>> THEN db ELSE AddMeters(add_meter(db, Head(mds)), Tail(mds))

\* The store after add_reading for each element of rds, in order.
RECURSIVE AddReadings(_, _)
AddReadings(db, rds) ==
  IF rds = <<>> THEN db
  ELSE AddReadings(add_reading(db, Head(rds),
                     CHOOSE p \in PrevChoices(db, Head(rds).meter_id,
                                              Head(rds).reading_date, NoRow) : TRUE),
                   Tail(rds))

\* A remote meter / reading document some device created earlier.
SrvMeter(u, n, t) ==
  [user_id |-> u, home_name |-> "Main", meter_name |-> n, created_at |-> IsoMicro(1),
   updatedAt |-> ServerStamp(t), by_push |-> FALSE]
SrvReading(u, m, v, d) ==
  [user_id |-> u, meter_id |-> m, reading_value |-> v, reading_date |-> d,
   by_push |-> FALSE]

\* A function given as a set of <<key, value>> pairs.
FnOf(pairs) ==
  [k \in {p[1] : p \in pairs} |-> (CHOOSE p \in pairs : p[1] = k)[2]]

\* Session start: a local file filled through add_meter / add_reading, a
\* remote database holding documents, nothing compared or synced yet.
InitStores(mds, rds, sm, sr) ==
  /\ \A k \in 1..Len(rds) : \E j \in 1..Len(mds) : mds[j].id = rds[k].meter_id
  /\ \A p \in sr : \E q \in sm : q[1] = p[2].meter_id /\ q[2].user_id = p[2].user_id
  /\ meters = AddReadings(AddMeters(EmptyDB, mds), rds).meters
  /\ readings = AddReadings(AddMeters(EmptyDB, mds), rds).readings
  /\ sync_log = AddReadings(AddMeters(EmptyDB, mds), rds).sync_log
  /\ srv_meters = FnOf(sm)
  /\ srv_readings = FnOf(sr)
  /\ comparison = NoComparison
  /\ run = NoRun
  /\ result = NoResult
  /\ last = [op |-> "init"]
  /\ bp = NoBatch
  /\ manual = NoThreads
  /\ conn = NoConn

\* Zero or one element, as the sequences / sets InitStores takes.
OptSeq(S) == {<<>>} \cup {<<x>> : x \in S}
OptSet(S) == {{}} \cup {{x} : x \in S}

CmpLocalM1 == {MeterData("m1", "u1", "Main", "M1", c) :
                 c \in {IsoMicro(1), IsoSec(1), IsoSec(2)}}
CmpLocalM2 == {MeterData("m2", u, "Main", "M2", IsoMicro(2)) : u \in UserIds}
CmpLocalR1 == {ReadingData("r1", "u1", "m1", 2000, 1), ReadingData("r1", "u1", "m1", 2000, 2),
               ReadingData("r1", "u1", "m2", 2000, 1)}
CmpLocalR2 == {ReadingData("r2", "u1", "m1", v, 1) : v \in {2000, 2003}}
CmpSrvM1 == {<<"m1", SrvMeter("u1", "M1", t)>> : t \in ServerTimes}
CmpSrvM2 == {<<"m2", SrvMeter(u, "M2", 1)>> : u \in UserIds}
CmpSrvR1 == {<<"s1", SrvReading("u1", m, v, 1)>> :
               m \in {"m1", "m2"}, v \in {1997, 2000, 2002, 2003}}
             \cup {<<"s1", SrvReading("u1", "m1", 2000, 2)>>}

InitCompare ==
  \E a \in OptSeq(CmpLocalM1), b \in OptSeq(CmpLocalM2),
     c \in OptSeq(CmpLocalR1), d \in OptSeq(CmpLocalR2),
     e \in OptSet(CmpSrvM1), f \in OptSet(CmpSrvM2), g \in OptSet(CmpSrvR1) :
       InitStores(a \o b, c \o d, e \cup f, g)

\* What can go wrong during one compare_databases.
CompareFaults ==
  [local : BOOLEAN, meters : BOOLEAN, readings : SUBSET {"m1"}, malformed : BOOLEAN]
NoFault == [local |-> FALSE, meters |-> FALSE, readings |-> {}, malformed |-> FALSE]

NextCompare == \E fault \in CompareFaults : Compare(fault)

SpecCompare == InitCompare /\ [][NextCompare]_vars

\* ------------------------------------------------ sequences of pushes
PushSrvM1 == {<<"m1", SrvMeter("u1", n, 1)>> : n \in {"M1", "M2"}}
PushSrvM3 == {<<"m3", SrvMeter("u1", "M1", 1)>>}
PushSrvR1 == {<<"r1", SrvReading("u1", "m1", 2000, d)>> : d \in {1, 2}}

InitPush ==
  \E e \in OptSet(PushSrvM1), f \in OptSet(PushSrvM3), g \in OptSet(PushSrvR1) :
     /\ meters = EmptyFn
     /\ readings = EmptyFn
     /\ sync_log = <<>>
     /\ srv_meters = FnOf(e \cup f)
     /\ srv_readings = FnOf(g)
     /\ comparison = NoComparison
     /\ run = NoRun
     /\ result = NoResult
     /\ last = [op |-> "init"]
     /\ bp = NoBatch
     /\ manual = NoThreads
     /\ conn = NoConn

\* (meter_id, meter_name, user_id) / (reading_id, reading_date) of the pushes.
MeterPushes == {<<"m1", "M1", "u1">>, <<"m1", "M2", "u1">>, <<"m2", "M1", "u1">>,
                <<"m2", "M1", "u2">>}
ReadingPushes == {<<"r1", 1>>, <<"r2", 1>>, <<"r1", 2>>}

NextPush ==
  \/ \E a \in MeterPushes, net \in NetFaults : SyncMeter(a[1], a[2], a[3], net, 1)
  \/ \E a \in ReadingPushes, net \in NetFaults :
        SyncReading(a[1], "m1", 2000, a[2], "u1", net)

SpecPush == InitPush /\ [][NextPush]_vars

\* ------------------------------------------------ sync runs of one session
SyncLocalM1 == {MeterData("m1", "u1", "Main", "M1", c) : c \in {IsoMicro(1), IsoSec(1)}}
SyncLocalM2 == {MeterData("m2", "u1", "Main", n, IsoMicro(2)) : n \in {"M1", "M2"}}
SyncLocalR1 == {ReadingData("r1", "u1", "m1", 2000, 1)}
SyncSrvM1 == {<<"m1", SrvMeter("u1", n, 2)>> : n \in {"M1", "M2"}}
SyncSrvM3 == {<<"m3", SrvMeter("u1", "M2", 1)>>}
SyncSrvR1 == {<<"s1", SrvReading("u1", m, v, 1)>> : m \in {"m1", "m3"}, v \in {2000, 2003}}

InitSync ==
  \E a \in OptSeq(SyncLocalM1), b \in OptSeq(SyncLocalM2), c \in OptSeq(SyncLocalR1),
     e \in OptSet(SyncSrvM1), f \in OptSet(SyncSrvM3), g \in OptSet(SyncSrvR1) :
       InitStores(a \o b, c, e \cup f, g)

SyncFaults == {NoFault, [NoFault EXCEPT !.meters = TRUE]}

NextSync ==
  \/ \E fault \in SyncFaults : Compare(fault)
  \/ PerformComprehensiveSync
  \/ UploadAllLocalDataToServer
  \/ SyncBeforeClosing
  \/ \E net \in NetFaults, now \in ServerTimes : SyncLocalToServerItem(net, now)
  \/ SyncServerToLocalItem
  \/ SyncReturn
  \/ FinishComprehensiveSync
  \/ FinishClosingSync

SpecSync == InitSync /\ [][NextSync]_vars


\* ------------------------------------------------ BatchProcessor
\* SyncBatchProcessor's settings.
batch_size == 3
max_workers == 2

Min(a, b) == IF a < b THEN a ELSE b

\* What one call of operation(item) does: returns success, returns a failure,
\* or raises.
Outcomes == {"ok", "fail", "raise"}

NewOp == [st |-> "new", outcome |-> "none", late |-> FALSE]

\* items[batch_start:batch_end], as the positions 1..total of the items.
BatchEnd(b) == Min(b.batch_start + batch_size, b.total)
BatchItems(b) == (b.batch_start + 1)..BatchEnd(b)

OpsIn(b, st) == {i \in BatchItems(b) : b.ops[i].st = st}

\* BatchProcessor.cancel(), from any thread at any moment.
Cancel ==
  /\ ~bp.cancel
  /\ bp' = [bp EXCEPT !.cancel = TRUE]
  /\ last' = [op |-> "cancel"]
  /\ UNCHANGED <<store_vars, remote_vars, sync_vars, manual, conn>>

\* process_batch(items, operation) is called with total items: an empty list
\* returns at once, a dict of three keys. The processor is one object the
\* caller keeps, so a call may follow a call that returned; only cancel_event
\* outlives a call. preset remembers whether the event was set at the call.
ProcessBatch(total) ==
  /\ bp.pc \in {"idle", "returned"}
  /\ bp' = IF total = 0
           THEN [pc |-> "returned", cancel |-> bp.cancel, total |-> 0,
                 preset |-> bp.cancel,
                 started |-> {}, delays |-> {}, ops |-> <<>>,
                 ret |-> [success_count |-> 0, failed_items |-> {}, results |-> {}]]
           ELSE [pc |-> "head", cancel |-> bp.cancel, total |-> total,
                 preset |-> bp.cancel,
                 batch_start |-> 0, ops |-> [i \in 1..total |-> NewOp],
                 collected |-> {}, observed |-> FALSE, success_count |-> 0,
                 failed_items |-> {}, results |-> {}, started |-> {}, delays |-> {},
                 ret |-> NoResult]
  /\ last' = [op |-> "process_batch", total |-> total]
  /\ UNCHANGED <<store_vars, remote_vars, sync_vars, manual, conn>>

\* A loop that never looks at cancel_event.
LoopBreaks_Never(b) == FALSE

\* `if self.cancel_event.is_set(): break`
LoopBreaks(b) == b.cancel

\* The head of the for loop: the range is exhausted, or cancel_event is set
\* (break), or the next batch begins.
LoopHead ==
  /\ bp.pc = "head"
  /\ bp' = IF bp.batch_start >= bp.total \/ LoopBreaks(bp)
           THEN [bp EXCEPT !.pc = "return"]
           ELSE [bp EXCEPT !.pc = "batch", !.started = @ \cup {bp.batch_start}]
  /\ last' = [op |-> "loop_head", cancel |-> bp.cancel]
  /\ UNCHANGED <<store_vars, remote_vars, sync_vars, manual, conn>>

\* _process_batch_concurrent: the executor is entered and every item of the
\* batch is submitted.
Submit ==
  /\ bp.pc = "batch"
  /\ bp' = [bp EXCEPT !.pc = "collect",
                      !.ops = [i \in 1..bp.total |->
                                 IF i \in BatchItems(bp)
                                 THEN [bp.ops[i] EXCEPT !.st = "queued"]
                                 ELSE bp.ops[i]]]
  /\ last' = [op |-> "submit", batch |-> bp.batch_start]
  /\ UNCHANGED <<store_vars, remote_vars, sync_vars, manual, conn>>

\* A free worker of the pool takes the oldest queued item and calls
\* operation(item); the pool has min(max_workers, len(batch_items)) workers.
\* The pool keeps doing so while the with block waits in shutdown(wait=True).
WorkerStart ==
  /\ bp.pc \in {"collect", "shutdown"}
  /\ OpsIn(bp, "queued") # {}
  /\ Cardinality(OpsIn(bp, "running"))
       < Min(max_workers, Cardinality(BatchItems(bp)))
  /\ LET i == CHOOSE q \in OpsIn(bp, "queued") :
                 \A o \in OpsIn(bp, "queued") : q <= o
     IN  /\ bp' = [bp EXCEPT !.ops[i] = [st |-> "running", outcome |-> "none",
                                         late |-> bp.observed]]
         /\ last' = [op |-> "start", item |-> i, cancel |-> bp.cancel,
                     observed |-> bp.observed]
  /\ UNCHANGED <<store_vars, remote_vars, sync_vars, manual, conn>>

\* operation(item) ends in its worker.
WorkerFinish(i, outcome) ==
  /\ bp.pc \in {"collect", "shutdown"}
  /\ i \in OpsIn(bp, "running")
  /\ bp' = [bp EXCEPT !.ops[i].st = "done", !.ops[i].outcome = outcome]
  /\ last' = [op |-> "finish", item |-> i, cancel |-> bp.cancel]
  /\ UNCHANGED <<store_vars, remote_vars, sync_vars, manual, conn>>

\* as_completed yields a finished future: cancel_event set -> break, else
\* its result (or the exception it raised) is stored in results[index].
\* The loop ends when every future was yielded.
Collect(i) ==
  /\ bp.pc = "collect"
  /\ i \in OpsIn(bp, "done") \ bp.collected
  /\ bp' = IF bp.cancel
           THEN [bp EXCEPT !.pc = "shutdown", !.observed = TRUE]
           ELSE [bp EXCEPT !.collected = @ \cup {i},
                           !.pc = IF BatchItems(bp) \subseteq bp.collected \cup {i}
                                  THEN "shutdown" ELSE "collect"]
  /\ last' = [op |-> "collect", item |-> i, cancel |-> bp.cancel]
  /\ UNCHANGED <<store_vars, remote_vars, sync_vars, manual, conn>>

\* Variant: only a result with success = False counts as a failure.
Succeeded_NotFailed(b) ==
  {i \in BatchItems(b) : i \in b.collected /\ b.ops[i].outcome # "fail"}

\* The results process_batch counts for the batch: the stored ones, and
\* 'Operation was cancelled' failures for the slots still None.
Succeeded(b) == {i \in BatchItems(b) : i \in b.collected /\ b.ops[i].outcome = "ok"}

\* A processor that never sleeps between batches.
TakesDelay_Never(b) == FALSE

\* `if batch_end < total_items and not self.cancel_event.is_set()`
TakesDelay(b) == BatchEnd(b) < b.total /\ ~b.cancel

\* ThreadPoolExecutor.__exit__ is shutdown(wait=True): it returns when every
\* submitted call has ended (calls still queued are started first).
ExecutorIdle(b) == BatchItems(b) = OpsIn(b, "done")

\* Leaving the with block waits for every submitted call to end; then the
\* None results are filled, the batch is counted, and the delay is decided.
ExitExecutor ==
  /\ bp.pc = "shutdown"
  /\ ExecutorIdle(bp)
  /\ bp' = [bp EXCEPT !.success_count = @ + Cardinality(Succeeded(bp)),
                      !.failed_items = @ \cup (BatchItems(bp) \ Succeeded(bp)),
                      !.results = @ \cup Succeeded(bp),
                      !.pc = IF TakesDelay(bp) THEN "delay" ELSE "head",
                      !.batch_start = IF TakesDelay(bp) THEN @ ELSE @ + batch_size]
  /\ last' = [op |-> "exit_executor", batch |-> bp.batch_start, cancel |-> bp.cancel]
  /\ UNCHANGED <<store_vars, remote_vars, sync_vars, manual, conn>>

\* time.sleep(delay_between_batches) elapses.
Delay ==
  /\ bp.pc = "delay"
  /\ bp' = [bp EXCEPT !.pc = "head", !.delays = @ \cup {bp.batch_start},
                      !.batch_start = @ + batch_size]
  /\ last' = [op |-> "delay", batch |-> bp.batch_start]
  /\ UNCHANGED <<store_vars, remote_vars, sync_vars, manual, conn>>

\* The return statement after the loop.
Return ==
  /\ bp.pc = "return"
  /\ bp' = [bp EXCEPT !.pc = "returned",
                      !.ret = [success_count |-> bp.success_count,
                               failed_items |-> bp.failed_items,
                               results |-> bp.results,
                               cancelled |-> bp.cancel]]
  /\ last' = [op |-> "return", cancel |-> bp.cancel]
  /\ UNCHANGED <<store_vars, remote_vars, sync_vars, manual, conn>>

\* A SyncBatchProcessor right after construction; the stores play no part.
InitBatch ==
  /\ meters = EmptyFn
  /\ readings = EmptyFn
  /\ sync_log = <<>>
  /\ srv_meters = EmptyFn
  /\ srv_readings = EmptyFn
  /\ comparison = NoComparison
  /\ run = NoRun
  /\ result = NoResult
  /\ last = [op |-> "init"]
  /\ bp = NoBatch
  /\ manual = NoThreads
  /\ conn = NoConn

NextBatch ==
  \/ Cancel
  \/ \E total \in 0..MaxItems : ProcessBatch(total)
  \/ LoopHead
  \/ Submit
  \/ WorkerStart
  \/ \E i \in 1..MaxItems, outcome \in Outcomes : WorkerFinish(i, outcome)
  \/ \E i \in 1..MaxItems : Collect(i)
  \/ ExitExecutor
  \/ Delay
  \/ Return

SpecBatch == InitBatch /\ [][NextBatch]_vars

\* ------------------------------------------------ manual sync (VoltTrackApp)
SyncTypes == {"upload", "download", "full"}

\* Threads are numbered in the order they are started.
ThreadRank(t) == IF t = "t1" THEN 1 ELSE 2

SetThread(t, th) == manual' = [manual EXCEPT !.threads[t] = th]

\* finish_sync_progress(success, message), after which the thread ends.
Finished(th, phase) == [th EXCEPT !.pc = "ended", !.phase = phase]

\* run_sync_with_progress(sync_type), reached from the sync dialog through
\* start_sync and show_sync_progress_dialog: sync_cancelled is reset and a
\* daemon thread is started.
RunSyncWithProgress(t, sync_type) ==
  /\ manual.threads[t].pc = "none"
  /\ \A o \in ThreadIds : manual.threads[o].pc = "none" => ThreadRank(t) <= ThreadRank(o)
  /\ Len(sync_log) < MaxLog
  /\ manual' = [sync_cancelled |-> FALSE,
                threads |-> [manual.threads EXCEPT ![t] =
                   [pc |-> "start", phase |-> "idle", type |-> sync_type,
                    compares |-> 0, cmp |-> NoComparison, items |-> <<>>, i |-> 0,
                    success |-> 0, failed |-> 0, downloaded_count |-> 0]]]
  /\ last' = [op |-> "run_sync_with_progress", thread |-> t, type |-> sync_type]
  /\ UNCHANGED <<store_vars, remote_vars, sync_vars, bp, conn>>

\* "Cancel Sync" of the progress overlay: cancel_sync.
CancelSync ==
  /\ \E t \in ThreadIds : manual.threads[t].pc \notin {"none", "ended"}
  /\ ~manual.sync_cancelled
  /\ manual' = [manual EXCEPT !.sync_cancelled = TRUE]
  /\ last' = [op |-> "cancel_sync"]
  /\ UNCHANGED <<store_vars, remote_vars, sync_vars, bp, conn>>

\* The head of run_sync: offline mode ends the run as failed; else the
\* branch of the sync type is taken ("full" has none: the thread just ends).
RunSync(t, offline_mode) ==
  /\ manual.threads[t].pc = "start"
  /\ LET th == manual.threads[t]
     IN  SetThread(t,
           IF offline_mode THEN Finished(th, "failed")
           ELSE IF th.type = "upload"
             THEN [th EXCEPT !.pc = "compare", !.phase = "comparing"]
           ELSE IF th.type = "download"
             THEN [th EXCEPT !.pc = "fetch", !.phase = "applying"]
           ELSE [th EXCEPT !.pc = "ended"])
  /\ last' = [op |-> "run_sync", thread |-> t, offline_mode |-> offline_mode]
  /\ UNCHANGED <<store_vars, remote_vars, sync_vars, bp, conn>>

\* items_to_upload = comparison['local_only'] + comparison['local_newer']
ItemsToUpload(cmp) == cmp.local_only \o cmp.local_newer

\* Variant: the thread compares again before it uploads.
AfterCompare_Again(th, cmp) ==
  [th EXCEPT !.cmp = cmp, !.compares = @ + 1, !.items = ItemsToUpload(cmp),
             !.pc = IF th.compares = 0 THEN "compare" ELSE "push",
             !.phase = IF th.compares = 0 THEN "comparing" ELSE "applying"]

\* upload_to_server_batch after compare_databases returned cmp: nothing to
\* upload ends the run as completed, else the upload begins.
AfterCompare(th, cmp) ==
  IF Len(ItemsToUpload(cmp)) = 0
    THEN Finished([th EXCEPT !.cmp = cmp, !.compares = @ + 1], "completed")
    ELSE [th EXCEPT !.cmp = cmp, !.compares = @ + 1, !.items = ItemsToUpload(cmp),
                    !.pc = "push", !.phase = "applying"]

\* upload_to_server_batch: compare_databases().
UploadCompare(t, fault) ==
  /\ manual.threads[t].pc = "compare"
  /\ \E local_rep \in RepChoices(LocalReadings(DB, CurrentUser)),
        server_rep \in RepChoices(ServerReadings(SRV, CurrentUser, fault)) :
       LET ret == compare_databases(DB, SRV, CurrentUser, fault, local_rep, server_rep)
       IN  /\ SetThread(t, AfterCompare(manual.threads[t], ret.value))
           /\ last' = [op |-> "upload_compare", thread |-> t, value |-> ret.value]
  /\ UNCHANGED <<store_vars, remote_vars, sync_vars, bp, conn>>

\* upload_to_server_batch: one iteration of sync_local_to_server(items_to_upload).
UploadItem(t, net, now) ==
  /\ manual.threads[t].pc = "push"
  /\ manual.threads[t].i < Len(manual.threads[t].items)
  /\ LET th == manual.threads[t]
         out == PushItem(SRV, th.items[th.i + 1], net, now)
     IN  /\ SetSRV(out.srv)
         /\ SetThread(t, [th EXCEPT !.i = @ + 1,
                                    !.success = IF out.raised THEN @ ELSE @ + 1,
                                    !.failed = IF out.raised THEN @ + 1 ELSE @])
         /\ last' = [op |-> "upload_item", thread |-> t, item |-> th.items[th.i + 1],
                     raised |-> out.raised]
  /\ UNCHANGED <<store_vars, sync_vars, bp, conn>>

\* upload_to_server_batch after sync_local_to_server returned:
\* finish_sync_progress(False) when an item failed, else (True).
UploadFinish(t) ==
  /\ manual.threads[t].pc = "push"
  /\ manual.threads[t].i = Len(manual.threads[t].items)
  /\ SetThread(t, Finished(manual.threads[t],
                           IF manual.threads[t].failed > 0 THEN "failed"
                           ELSE "completed"))
  /\ last' = [op |-> "upload_finish", thread |-> t]
  /\ UNCHANGED <<store_vars, remote_vars, sync_vars, bp, conn>>

\* download_from_server_with_progress: appwrite.get_user_meters(); an
\* exception ends the run as failed.
DownloadFetch(t, fail) ==
  /\ manual.threads[t].pc = "fetch"
  /\ LET th == manual.threads[t]
         got == get_user_meters(SRV, CurrentUser, fail)
     IN  SetThread(t,
           IF got.raised THEN Finished(th, "failed")
           ELSE [th EXCEPT !.pc = "meters",
                           !.items = ListOf(MeterOrder, {m.id : m \in got.value},
                                            LAMBDA id : ById(got.value, id))])
  /\ last' = [op |-> "download_fetch", thread |-> t, raised |-> fail]
  /\ UNCHANGED <<store_vars, remote_vars, sync_vars, bp, conn>>

\* download_from_server_with_progress: one iteration of the loop over the
\* meters (cancelled -> the run ends; a meter the user does not have locally
\* is added), and the step from that loop to the loop of the readings.
DownloadMeter(t) ==
  /\ manual.threads[t].pc = "meters"
  /\ LET th == manual.threads[t]
     IN  IF th.i = Len(th.items)
           THEN /\ SetThread(t, [th EXCEPT !.pc = "readings", !.i = 0])
                /\ UNCHANGED store_vars
         ELSE IF manual.sync_cancelled
           THEN /\ SetThread(t, Finished(th, "cancelled"))
                /\ UNCHANGED store_vars
         ELSE IF \E m \in get_meters(DB, CurrentUser) : m.id = th.items[th.i + 1].id
           THEN /\ SetThread(t, [th EXCEPT !.i = @ + 1])
                /\ UNCHANGED store_vars
         ELSE /\ SetThread(t, [th EXCEPT !.i = @ + 1, !.downloaded_count = @ + 1])
              /\ SetDB(add_meter(DB, [id |-> th.items[th.i + 1].id,
                                      user_id |-> th.items[th.i + 1].user_id,
                                      home_name |-> th.items[th.i + 1].home_name,
                                      meter_name |-> th.items[th.i + 1].meter_name,
                                      created_at |-> th.items[th.i + 1].created_at]))
  /\ last' = [op |-> "download_meter", thread |-> t]
  /\ UNCHANGED <<remote_vars, sync_vars, bp, conn>>

\* download_from_server_with_progress: one iteration of the loop over the
\* readings of the meters (cancelled -> the run ends; else
\* appwrite.get_daily_readings, which DirectAppwriteService does not define:
\* the AttributeError is caught and the loop goes on), and the end of the
\* run: finish_sync_progress(True), with load_meters (which removes
\* duplicate meters) when a meter was added.
DownloadReadings(t) ==
  /\ manual.threads[t].pc = "readings"
  /\ LET th == manual.threads[t]
     IN  IF th.i < Len(th.items)
           THEN /\ SetThread(t, IF manual.sync_cancelled THEN Finished(th, "cancelled")
                                ELSE [th EXCEPT !.i = @ + 1])
                /\ UNCHANGED store_vars
         ELSE /\ SetThread(t, Finished(th, "completed"))
              /\ IF th.downloaded_count > 0
                   THEN \E keep \in KeepChoices(DB, CurrentUser) :
                          SetDB(remove_duplicate_meters(DB, CurrentUser, keep).db)
                   ELSE UNCHANGED store_vars
  /\ last' = [op |-> "download_readings", thread |-> t]
  /\ UNCHANGED <<remote_vars, sync_vars, bp, conn>>

ManualLocalM1 == {MeterData("m1", "u1", "Main", "M1", IsoSec(1))}
ManualLocalM2 == {MeterData("m2", "u1", "Main", "M2", IsoMicro(2))}
ManualSrvM3 == {<<"m3", SrvMeter("u1", "M2", 1)>>}

\* Session start, as InitSync, over fewer stores.
InitManual ==
  \E a \in ManualLocalM1, b \in OptSeq(ManualLocalM2), f \in OptSet(ManualSrvM3) :
       InitStores(<<a>> \o b, <<>>, f, {})

ManualNet == {"ok", "both"}

NextManual ==
  \/ Compare(NoFault)
  \/ PerformComprehensiveSync
  \/ \E net \in ManualNet : SyncLocalToServerItem(net, 2)
  \/ SyncServerToLocalItem
  \/ SyncReturn
  \/ FinishComprehensiveSync
  \/ \E t \in ThreadIds, sync_type \in SyncTypes : RunSyncWithProgress(t, sync_type)
  \/ CancelSync
  \/ \E t \in ThreadIds, offline_mode \in BOOLEAN : RunSync(t, offline_mode)
  \/ \E t \in ThreadIds : UploadCompare(t, NoFault)
  \/ \E t \in ThreadIds, net \in ManualNet : UploadItem(t, net, 2)
  \/ \E t \in ThreadIds : UploadFinish(t)
  \/ \E t \in ThreadIds, fail \in BOOLEAN : DownloadFetch(t, fail)
  \/ \E t \in ThreadIds : DownloadMeter(t)
  \/ \E t \in ThreadIds : DownloadReadings(t)

SpecManual == InitManual /\ [][NextManual]_vars

\* ------------------------------------------------ calls on a local store
\* A caller (the UI, a pull, a download) calls add_meter; the id may be one
\* the table already holds.
CallAddMeter(md) ==
  /\ Len(sync_log) < MaxLog
  /\ SetDB(add_meter(DB, md))
  /\ last' = [op |-> "add_meter", id |-> md.id, ret |-> md.id, md |-> md]
  /\ UNCHANGED <<aux_vars, remote_vars, sync_vars>>

\* A caller (the end of a sync) calls mark_synced(record_ids).
MarkSynced(record_ids) ==
  /\ SetDB(mark_synced(DB, record_ids))
  /\ last' = [op |-> "mark_synced", record_ids |-> record_ids]
  /\ UNCHANGED <<aux_vars, remote_vars, sync_vars>>

StoreMeterIds == {"m1", "m2"}
StoreReadingIds == {"r1", "r2"}
StoreDates == {1, 2}
\* The id lists mark_synced is called with.
StoreMarks == {{"m1"}, {"r1"}, {"m1", "r1"}}
StoreMeters ==
  {MeterData(id, "u1", "Main", n, IsoMicro(1)) : id \in StoreMeterIds, n \in {"M1", "M2"}}

NextStore ==
  \/ \E md \in StoreMeters : CallAddMeter(md)
  \/ \E id \in StoreReadingIds, d \in StoreDates : AddReading(id, "u1", "m1", 2000, d)
  \/ \E id \in StoreReadingIds : UpdateReading(id, 2400, 1)
  \/ \E id \in StoreReadingIds : DeleteReading(id)
  \/ \E ids \in StoreMarks : MarkSynced(ids)

\* LocalDatabase() on a fresh file, then calls of its methods in any order.
SpecStore == InitMeters /\ [][NextStore]_vars

\* ------------------------------------------------------------------ claims
\* The stored reading(s) of r's meter with the greatest date strictly before
\* r's date.
Predecessors(r) ==
  PreviousResult(DB, readings[r].meter_id, readings[r].reading_date, r)

\* C1: after any sequence of add_reading, update_reading and delete_reading,
\* every stored reading r has consumption = max(0, value(r) - value(p)) for p
\* the stored reading of its meter with the greatest date strictly before r's
\* date, and consumption 0 when there is no such reading.
C1_ConsumptionMatchesPredecessor ==
  \A r \in DOMAIN readings :
     IF Predecessors(r) = {}
       THEN readings[r].consumption_kwh = 0
       ELSE \E p \in Predecessors(r) :
              readings[r].consumption_kwh =
                Max(0, readings[r].reading_value - readings[p].reading_value)

\* ------------------------------------------------------------ comparisons
ListNames == {"local_newer", "server_newer", "local_only", "server_only", "conflicts",
              "in_sync"}

\* The places <<list, position>> of the comparison holding an item P accepts.
Places(cmp, P(_)) ==
  UNION {{<<l, k>> : k \in {x \in 1..Len(cmp[l]) : P(cmp[l][x])}} : l \in ListNames}

MeterPlaces(cmp, id) ==
  Places(cmp, LAMBDA it : it.type = "meter" /\ it.id = id)
ReadingPlaces(cmp, key) ==
  Places(cmp, LAMBDA it : it.type = "reading" /\ it.key = key)

Compared == last.op = "compare_databases"

\* What the comparison had to work with.
OwnMeterIds == {m.id : m \in get_meters(DB, CurrentUser)}
OwnReadings == LocalReadings(DB, CurrentUser)
RemoteMeterIds == {m \in DOMAIN srv_meters : srv_meters[m].user_id = CurrentUser}
RemoteReadings == ServerReadings(SRV, CurrentUser, NoFault)
FetchedReadings == ServerReadings(SRV, CurrentUser, last.fault)
WithKey(dicts, k) == {r \in dicts : KeyOf(r) = k}
Keys(dicts) == {KeyOf(r) : r \in dicts}

\* C2: compare_databases is a total partition: every meter id present in
\* either store and every reading key present on either side is in exactly
\* one of the six lists.
C2_ComparisonPartitions ==
  (Compared /\ last.fault = NoFault) =>
    /\ \A id \in OwnMeterIds \cup RemoteMeterIds :
         Cardinality(MeterPlaces(comparison, id)) = 1
    /\ \A k \in Keys(OwnReadings) \cup Keys(RemoteReadings) :
         Cardinality(ReadingPlaces(comparison, k)) = 1

\* The record ids with a settled change-log entry.
Settled(log) == {log[k].record_id : k \in {x \in 1..Len(log) : log[x].synced}}

\* C3: a change-log entry becomes settled only if its push was confirmed: the
\* caller marks synced exactly the records whose push succeeded.
C3_SettledOnlyIfPushed ==
  [][/\ run = NoRun => Settled(sync_log') \subseteq Settled(sync_log)
     /\ run # NoRun =>
          \A rid \in Settled(sync_log') \ Settled(sync_log) : rid \in run.pushed]_vars

\* C4: in sync_local_to_server and sync_server_to_local an item that fails is
\* counted and the loop goes on: at every moment success + failed is the
\* number of items processed, and on return it is the number of items given.
C4_EveryItemCounted ==
  /\ run # NoRun =>
       /\ run.success + run.failed = run.i
       /\ run.i <= Len(run.items)
       /\ Len(run.outcomes) = run.i
  /\ last.op = "sync_return" =>
       /\ result.success + result.failed = result.n
       /\ Len(result.outcomes) = result.n

\* C4 witness: a call returned after an item that failed was followed by an
\* item that succeeded.
C4_Witness ==
  /\ last.op = "sync_return"
  /\ \E a, b \in 1..result.n : a < b /\ result.outcomes[a] /\ ~result.outcomes[b]

\* C5: a record listed in local_only whose push succeeded is, at the next
\* compare_databases, in in_sync and not in local_only.
C5_PushedIsInSyncAfterwards ==
  [][(/\ last.op = "mark_synced"
      /\ last.proc \in {"comprehensive", "upload_all"}
      /\ last'.op = "compare_databases"
      /\ last'.fault = NoFault) =>
        \A id \in last.pushed :
          /\ \E k \in 1..Len(comparison'.in_sync) :
               comparison'.in_sync[k].type = "meter" /\ comparison'.in_sync[k].id = id
          /\ \A k \in 1..Len(comparison'.local_only) :
               ~(comparison'.local_only[k].type = "meter"
                 /\ comparison'.local_only[k].id = id)]_vars

\* C6: a reading key present on both sides is in in_sync when the two values
\* differ by at most 0.01, and otherwise in conflicts with both readings and
\* both values recorded.
C6_ToleranceDecides ==
  (Compared /\ ~last.fault.local /\ ~last.fault.malformed) =>
    \A k \in Keys(OwnReadings) \cap Keys(FetchedReadings) :
      /\ Cardinality(ReadingPlaces(comparison, k)) = 1
      /\ \A p \in ReadingPlaces(comparison, k) :
           LET it == comparison[p[1]][p[2]]
           IN  \/ /\ p[1] = "in_sync"
                  /\ \E l \in WithKey(OwnReadings, k), r \in WithKey(FetchedReadings, k) :
                       AbsDiff(l.reading_value, r.reading_value) <= Tolerance
               \/ /\ p[1] = "conflicts"
                  /\ it.local_data \in WithKey(OwnReadings, k)
                  /\ it.server_data \in WithKey(FetchedReadings, k)
                  /\ AbsDiff(it.local_data.reading_value,
                             it.server_data.reading_value) > Tolerance
                  /\ it.conflict_reason = <<"Value mismatch", it.local_data.reading_value,
                                            it.server_data.reading_value>>

\* C6 witness: a key is in in_sync whose two values differ by exactly the
\* tolerance.
C6_Witness ==
  /\ Compared
  /\ ~last.fault.local
  /\ \E k \in Keys(OwnReadings) \cap Keys(FetchedReadings) :
       /\ \E p \in ReadingPlaces(comparison, k) : p[1] = "in_sync"
       /\ \A l \in WithKey(OwnReadings, k), r \in WithKey(FetchedReadings, k) :
            AbsDiff(l.reading_value, r.reading_value) = Tolerance

\* (home_name, meter_name) of a local meter row.
NaturalKey(m) == <<meters[m].home_name, meters[m].meter_name>>

\* C7: a remove_duplicate_meters(owner) step leaves, for every (home label,
\* meter label) of that owner, exactly one meter, one of minimum creation
\* timestamp in its group before the call; meters of singleton groups and of
\* other owners are untouched; the return value is the number of meters deleted.
C7_DedupKeepsOldest ==
  [][last'.op = "remove_duplicate_meters" =>
       /\ \A m \in DOMAIN meters :
            meters[m].user_id = last'.user_id =>
              /\ Cardinality(Group(DB', last'.user_id, NaturalKey(m))) = 1
              /\ Group(DB', last'.user_id, NaturalKey(m))
                    \subseteq Oldest(DB, Group(DB, last'.user_id, NaturalKey(m)))
       /\ \A m \in DOMAIN meters :
            (\/ meters[m].user_id # last'.user_id
             \/ Cardinality(Group(DB, last'.user_id, NaturalKey(m))) = 1)
              => m \in DOMAIN meters' /\ meters'[m] = meters[m]
       /\ DOMAIN meters' \subseteq DOMAIN meters
       /\ \A m \in DOMAIN meters' : meters'[m] = meters[m]
       /\ last'.ret = Cardinality(DOMAIN meters \ DOMAIN meters')]_vars

\* C7 witness: a call that removed a duplicate while a meter of another owner
\* exists.
C7_Witness ==
  /\ last.op = "remove_duplicate_meters"
  /\ last.ret >= 1
  /\ \E m \in DOMAIN meters : meters[m].user_id # last.user_id

\* C8: after remove_duplicate_meters no reading references a removed meter
\* and no change-log entry refers to a removed meter or to a reading that was
\* deleted together with it.
C8_NoTraceOfRemovedDuplicates ==
  last.op = "remove_duplicate_meters" =>
    /\ \A r \in DOMAIN readings : readings[r].meter_id \notin last.removed
    /\ \A i \in DOMAIN sync_log :
         sync_log[i].record_id \notin (last.removed \cup last.removed_readings)

\* The ids / keys a list of the comparison holds.
MeterIdsIn(cmp, l) == {cmp[l][k].id : k \in {x \in 1..Len(cmp[l]) : cmp[l][x].type = "meter"}}
ReadingKeysIn(cmp, l) ==
  {cmp[l][k].key : k \in {x \in 1..Len(cmp[l]) : cmp[l][x].type = "reading"}}

\* C9 as stated: compare_databases never raises, and when fetching the remote
\* meters or readings fails it returns the comparison accumulated up to that
\* point (the fetches come before anything is appended).
C9_FetchFailureReturnsAccumulated ==
  Compared =>
    /\ ~last.raised
    /\ (last.fault.meters \/ last.fault.readings \cap RemoteMeterIds # {}) =>
          comparison = EmptyComparison

\* C9 amended: compare_databases never raises; a failed fetch of the remote
\* meters, or of one meter's remote readings, counts as an empty listing and
\* the comparison is completed over what was fetched; only an exception
\* outside the fetches returns the comparison accumulated so far.
C9_FetchFailureComparedAsEmpty ==
  Compared =>
    /\ ~last.raised
    /\ last.fault.local => comparison = EmptyComparison
    /\ (~last.fault.local /\ last.fault.meters) =>
         /\ MeterIdsIn(comparison, "local_only") = OwnMeterIds
         /\ ReadingKeysIn(comparison, "local_only") = Keys(OwnReadings)
         /\ \A l \in ListNames \ {"local_only"} : comparison[l] = <<>>
    /\ (~last.fault.local /\ ~last.fault.meters) =>
         /\ MeterIdsIn(comparison, "local_only") = OwnMeterIds \ RemoteMeterIds
         /\ MeterIdsIn(comparison, "server_only") = RemoteMeterIds \ OwnMeterIds
         /\ IF last.fault.malformed /\ FetchedReadings # {}
              THEN \A l \in ListNames : ReadingKeysIn(comparison, l) = {}
              ELSE /\ ReadingKeysIn(comparison, "local_only")
                        = Keys(OwnReadings) \ Keys(FetchedReadings)
                   /\ \A k \in Keys(OwnReadings) :
                        k[1] \in last.fault.readings =>
                          k \in ReadingKeysIn(comparison, "local_only")

\* C9 witness: the listing of remote meters failed while a local meter has a
\* remote document, and the meter is reported as local_only.
C9_Witness ==
  /\ Compared
  /\ ~last.fault.local
  /\ last.fault.meters
  /\ \E id \in OwnMeterIds \cap RemoteMeterIds : id \in MeterIdsIn(comparison, "local_only")

\* C10: pushes, repeated in any order, never leave two remote meters with the
\* same (owner, home, label) or two remote readings with the same (owner,
\* meter, date) of which one was created by a push.
C10_NoDuplicateByPush ==
  /\ \A a, b \in DOMAIN srv_meters :
       (/\ a # b
        /\ srv_meters[a].user_id = srv_meters[b].user_id
        /\ srv_meters[a].home_name = srv_meters[b].home_name
        /\ srv_meters[a].meter_name = srv_meters[b].meter_name)
         => (~srv_meters[a].by_push /\ ~srv_meters[b].by_push)
  /\ \A a, b \in DOMAIN srv_readings :
       (/\ a # b
        /\ srv_readings[a].user_id = srv_readings[b].user_id
        /\ srv_readings[a].meter_id = srv_readings[b].meter_id
        /\ srv_readings[a].reading_date = srv_readings[b].reading_date)
         => (~srv_readings[a].by_push /\ ~srv_readings[b].by_push)

\* C10 witness: a push of a reading whose key a push already created returned
\* without creating anything, while a meter created by a push under a
\* generated id exists.
C10_Witness ==
  /\ last.op = "sync_reading"
  /\ ~last.raised
  /\ last.created = {}
  /\ \E r \in DOMAIN srv_readings :
       /\ srv_readings[r].by_push
       /\ <<srv_readings[r].user_id, srv_readings[r].meter_id,
            srv_readings[r].reading_date>> = last.key
  /\ \E m \in DOMAIN srv_meters :
       srv_meters[m].by_push /\ m \in {GenIds[x] : x \in 1..Len(GenIds)}

\* ------------------------------------------------------ batch processing
\* The items of the batches process_batch began (their loop-head check passed).
StartedItems(b) ==
  {i \in 1..b.total : \E s \in b.started : s < i /\ i <= Min(s + batch_size, b.total)}

\* process_batch has just returned (no cancel() came after the return).
JustReturned == bp.pc = "returned" /\ last.op \in {"return", "process_batch"}

\* C11: once cancel() has been called, process_batch begins no further batch,
\* and the dict it returns has cancelled = True and counts (successes plus
\* failures) exactly the items of the batches it began.
C11_CancelledReturnsPartialResult ==
  /\ (last.op = "loop_head" /\ last.cancel) => bp.pc = "return"
  /\ (JustReturned /\ bp.cancel) =>
       /\ "cancelled" \in DOMAIN bp.ret
       /\ bp.ret.cancelled
       /\ bp.ret.success_count + Cardinality(bp.ret.failed_items)
            = Cardinality(StartedItems(bp))

\* The batch that begins at position s, and whether it is the last of the list.
ItemsOf(b, s) == (s + 1)..Min(s + batch_size, b.total)
IsLastBatch(b, s) == s + batch_size >= b.total
Begun(b, i) == b.ops[i].st \in {"running", "done"}

\* Batches begin in list order, and an operation of a batch has begun only
\* if every operation of the batch before it has ended and the delay after
\* that batch has elapsed.
BatchesInSequence ==
  bp.pc \notin {"idle"} /\ bp.total > 0 =>
    \A s \in bp.started :
      /\ s = 0 \/ s - batch_size \in bp.started
      /\ (\E i \in ItemsOf(bp, s) : Begun(bp, i)) /\ s > 0 =>
           /\ \A j \in 1..s : bp.ops[j].st = "done"
           /\ s - batch_size \in bp.delays

\* The current batch is over and the moment of its delay has passed.
BetweenBatches == bp.pc \in {"head", "return", "returned"} /\ bp.total > 0

\* C12 (as stated): batches run strictly one after the other in list order,
\* and the delay is taken after every batch except the last of the list.
C12_DelayAfterEveryBatchButLast ==
  /\ BatchesInSequence
  /\ BetweenBatches =>
       \A s \in bp.started : s \in bp.delays <=> ~IsLastBatch(bp, s)

\* C12 (amended): batches run strictly one after the other in list order; the
\* delay is taken after every batch except the last of the list and except a
\* batch at whose end cancel() had been called, after which no batch begins.
C12_DelayUnlessLastOrCancelled ==
  /\ BatchesInSequence
  /\ BetweenBatches =>
       \A s \in bp.started :
         /\ IsLastBatch(bp, s) => s \notin bp.delays
         /\ ~IsLastBatch(bp, s) =>
              \/ s \in bp.delays
              \/ bp.cancel /\ s + batch_size \notin bp.started

C12_Witness ==
  /\ bp.pc = "collect" /\ bp.total = 4 /\ bp.batch_start = 3
  /\ bp.ops[4].st = "running"
  /\ bp.delays = {0}

\* C13: cancellation is not preemptive: an operation in flight runs to its
\* end (the batch is left only when none is running), and no operation
\* starts after the collecting loop has observed the cancellation.
C13_NoStartAfterCancellationObserved ==
  bp.pc \notin {"idle"} /\ bp.total > 0 =>
    /\ bp.pc \in {"head", "delay", "return", "returned"} =>
         \A i \in 1..bp.total : bp.ops[i].st # "running"
    /\ \A i \in 1..bp.total : Begun(bp, i) => ~bp.ops[i].late

\* ------------------------------------------------------------ sync runs
\* The sync runs in progress: the thread of a startup sync dialog, and the
\* threads of run_sync_with_progress that have not ended.
ActiveThreads == {t \in ThreadIds : manual.threads[t].pc \notin {"none", "ended"}}
ActiveRuns == (IF run = NoRun THEN 0 ELSE 1) + Cardinality(ActiveThreads)

\* C14: at most one sync run is active at a time; a request made while a run
\* is active starts no second, concurrent run.
C14_AtMostOneActiveRun == ActiveRuns <= 1

PhaseRank(phase) ==
  CASE phase = "idle" -> 0
    [] phase = "comparing" -> 1
    [] phase = "applying" -> 2
    [] phase \in {"completed", "cancelled", "failed"} -> 3

\* One step of the thread t of run_sync_with_progress, from a to b.
ThreadStepOk(a, b) ==
  /\ a.phase # b.phase => PhaseRank(a.phase) < PhaseRank(b.phase)
  /\ a.pc # "none" /\ b.compares # a.compares =>
       a.phase = "comparing" /\ a.compares = 0 /\ b.compares = 1
  /\ b.phase = "applying" /\ b.type = "upload" =>
       /\ b.compares = 1
       /\ b.items = b.cmp.local_only \o b.cmp.local_newer
       /\ a.phase = "applying" => b.cmp = a.cmp /\ b.items = a.items

\* C15: a sync invocation only moves forward along idle, comparing, applying,
\* {completed, cancelled, failed}; it calls compare_databases at most once,
\* never after applying has begun, and what it applies are the lists of the
\* comparison it made itself.
C15_OneComparisonPerInvocation ==
  [][\A t \in ThreadIds :
       manual.threads[t] # manual'.threads[t] /\ manual'.threads[t].pc # "none" =>
         ThreadStepOk(manual.threads[t], manual'.threads[t])]_vars

C15_Witness ==
  \E t \in ThreadIds :
    /\ manual.threads[t].pc = "ended" /\ manual.threads[t].type = "upload"
    /\ manual.threads[t].phase = "completed"
    /\ manual.threads[t].compares = 1
    /\ manual.threads[t].i = 2
    /\ comparison # NoComparison /\ comparison # manual.threads[t].cmp

\* ------------------------------------------------------------ change log
\* The log after one unsettled entry was appended to it.
Logged(op, tbl, rid) ==
  Append(sync_log, [operation |-> op, table_name |-> tbl, record_id |-> rid,
                    synced |-> FALSE])

\* C16: add_meter of a new id, add_reading, and update_reading /
\* delete_reading of an existing reading append exactly one unsettled entry
\* with the operation, table and record id of the call; add_meter of an
\* existing id and update / delete of an unknown id append none; no call
\* removes or rewrites an entry the log already holds.
C16_OneLogEntryPerMutation ==
  [][/\ last'.op = "add_meter" =>
          sync_log' = IF last'.id \in DOMAIN meters THEN sync_log
                      ELSE Logged("INSERT", "meters", last'.id)
     /\ last'.op = "add_reading" => sync_log' = Logged("INSERT", "readings", last'.id)
     /\ last'.op = "update_reading" =>
          sync_log' = IF last'.id \in DOMAIN readings
                      THEN Logged("UPDATE", "readings", last'.id) ELSE sync_log
     /\ last'.op = "delete_reading" =>
          sync_log' = IF last'.id \in DOMAIN readings
                      THEN Logged("DELETE", "readings", last'.id) ELSE sync_log]_vars

\* The log holds the entries of an insert, an update and a delete, and the
\* last call was a delete of an id the table does not hold.
C16_Witness ==
  /\ last.op = "delete_reading" /\ ~last.ret
  /\ \E i, j, k \in DOMAIN sync_log :
       /\ i < j /\ j < k
       /\ sync_log[i].operation = "INSERT" /\ sync_log[i].table_name = "readings"
       /\ sync_log[j].operation = "UPDATE"
       /\ sync_log[k].operation = "DELETE" /\ sync_log[k].record_id = last.id
  /\ \E i \in DOMAIN sync_log : sync_log[i].table_name = "meters"

\* The row add_meter writes for meter_data md.
RowOf(md) ==
  [user_id |-> md.user_id, home_name |-> md.home_name, meter_name |-> md.meter_name,
   created_at |-> md.created_at]

\* C17: add_meter with an id the table holds returns that id and changes
\* neither the meters table nor the change log, whatever the other fields of
\* the call; add_meter with a new id inserts the row even when its owner,
\* home and label are those of a meter already held.
C17_AddMeterIdempotentOnId ==
  [][last'.op = "add_meter" =>
       /\ last'.ret = last'.id
       /\ readings' = readings
       /\ IF last'.id \in DOMAIN meters
            THEN meters' = meters /\ sync_log' = sync_log
            ELSE /\ DOMAIN meters' = DOMAIN meters \cup {last'.id}
                 /\ meters'[last'.id] = RowOf(last'.md)
                 /\ \A m \in DOMAIN meters : meters'[m] = meters[m]]_vars

\* The last add_meter named an id already held, with another label; the
\* table holds two meters of one owner, home and label.
C17_Witness ==
  /\ last.op = "add_meter"
  /\ meters[last.id] # RowOf(last.md)
  /\ \E a, b \in DOMAIN meters :
       /\ a # b /\ NaturalKey(a) = NaturalKey(b)
       /\ meters[a].user_id = meters[b].user_id

\* C18: mark_synced(ids) sets the settled flag of every log entry whose
\* record id is in ids and changes nothing else (no entry is added, removed
\* or otherwise rewritten, meters and readings stay); calling it again with
\* the same ids changes nothing.
C18_MarkSyncedSettlesExactlyIds ==
  [][last'.op = "mark_synced" =>
       /\ meters' = meters /\ readings' = readings
       /\ Len(sync_log') = Len(sync_log)
       /\ \A i \in DOMAIN sync_log :
            /\ sync_log'[i].operation = sync_log[i].operation
            /\ sync_log'[i].table_name = sync_log[i].table_name
            /\ sync_log'[i].record_id = sync_log[i].record_id
            /\ sync_log'[i].synced
                 = (sync_log[i].synced \/ sync_log[i].record_id \in last'.record_ids)
       /\ mark_synced([meters |-> meters', readings |-> readings',
                       sync_log |-> sync_log'], last'.record_ids).sync_log
            = sync_log']_vars

\* The last mark_synced named two records that have entries, and left an
\* entry of another record unsettled.
C18_Witness ==
  /\ last.op = "mark_synced"
  /\ \E i, j, k \in DOMAIN sync_log :
       /\ i < j
       /\ sync_log[i].record_id \in last.record_ids
       /\ sync_log[j].record_id \in last.record_ids
       /\ sync_log[i].record_id # sync_log[j].record_id
       /\ sync_log[k].record_id \notin last.record_ids /\ ~sync_log[k].synced

\* ------------------------------------------------------- meter timestamps
\* The lists of the comparison that hold the meter id.
ListsOfMeter(id) == {l \in ListNames : MeterPlaces(comparison, id) # {} /\
                       \E p \in MeterPlaces(comparison, id) : p[1] = l}

\* The timestamps _compare_meters reads for a meter held on both sides.
LocalStamp(id) == meters[id].created_at
RemoteStamp(id) == srv_meters[id].updatedAt
Parseable(ts) == ts # NoStamp /\ ts.fmt \in ParseFormats

\* compare_databases has just returned and its fetches and reads succeeded.
ComparedUndisturbed == Compared /\ last.fault = NoFault

\* C19: a meter held on both sides, both timestamps parseable, is in
\* local_newer if and only if the local timestamp is strictly greater, in
\* server_newer if and only if the remote one is, and in in_sync if and only
\* if they are equal (and in that one list only, once).
C19_NewerSideDecides ==
  ComparedUndisturbed =>
    \A id \in OwnMeterIds \cap RemoteMeterIds :
      Parseable(LocalStamp(id)) /\ Parseable(RemoteStamp(id)) =>
        /\ Cardinality(MeterPlaces(comparison, id)) = 1
        /\ ListsOfMeter(id) =
             IF LocalStamp(id).t > RemoteStamp(id).t THEN {"local_newer"}
             ELSE IF RemoteStamp(id).t > LocalStamp(id).t THEN {"server_newer"}
             ELSE {"in_sync"}

C19_Witness ==
  /\ ComparedUndisturbed
  /\ "m1" \in OwnMeterIds \cap RemoteMeterIds
  /\ Parseable(LocalStamp("m1")) /\ Parseable(RemoteStamp("m1"))
  /\ LocalStamp("m1").t > RemoteStamp("m1").t
  /\ ListsOfMeter("m1") = {"local_newer"}

\* C20: a meter held on both sides whose local or remote timestamp is absent
\* or unparseable is listed in in_sync.
C20_UnparseableIsInSync ==
  ComparedUndisturbed =>
    \A id \in OwnMeterIds \cap RemoteMeterIds :
      ~(Parseable(LocalStamp(id)) /\ Parseable(RemoteStamp(id))) =>
        ListsOfMeter(id) = {"in_sync"}

\* ------------------------------------------------------------ consumption
\* C21: every stored reading has consumption >= 0, and a reading stored with
\* a value below the predecessor value it was computed against (meter
\* rollback) has consumption 0, whether add_reading or update_reading wrote it.
C21_ConsumptionNeverNegative ==
  \A r \in DOMAIN readings :
    /\ readings[r].consumption_kwh >= 0
    /\ readings[r].reading_value < readings[r].previous_reading =>
         readings[r].consumption_kwh = 0

\* Two stored rollbacks, the last of them written by update_reading.
C21_Witness ==
  /\ last.op = "update_reading" /\ last.ret
  /\ readings[last.id].reading_value < readings[last.id].previous_reading
  /\ \E r \in DOMAIN readings :
       /\ r # last.id
       /\ readings[r].reading_value < readings[r].previous_reading

\* The readings of the meter dated strictly before d, and the latest of them.
EarlierOn(meter_id, d) ==
  {r \in DOMAIN readings : readings[r].meter_id = meter_id /\ readings[r].reading_date < d}
LatestEarlierOn(meter_id, d) ==
  {r \in EarlierOn(meter_id, d) :
     \A q \in EarlierOn(meter_id, d) : readings[q].reading_date <= readings[r].reading_date}

\* Scenario D: one meter, readings of 10, 15 and 12 kWh added in ascending
\* date order (2560, 3840 and 3072 units) get the consumptions 0, 5 and 0 kWh.
ScenarioD ==
  LET db == AddReadings(AddMeters(EmptyDB, <<MeterData("m1", "u1", "Main", "M1", IsoMicro(1))>>),
                        <<ReadingData("r1", "u1", "m1", 2560, 1),
                          ReadingData("r2", "u1", "m1", 3840, 2),
                          ReadingData("r3", "u1", "m1", 3072, 3)>>)
  IN  <<db.readings["r1"].consumption_kwh, db.readings["r2"].consumption_kwh,
        db.readings["r3"].consumption_kwh>> = <<0, 1280, 0>>

\* C22: add_reading stores as previous the value of a latest reading of the
\* same meter dated strictly before the new one and as consumption
\* max(0, value - previous); when the meter has no earlier reading it stores
\* previous = value and consumption 0. Readings of 10, 15, 12 added in
\* ascending date order get consumptions 0, 5, 0.
C22_AddReadingUsesLatestEarlier ==
  [][last'.op = "add_reading" /\ last'.id \notin DOMAIN readings =>
       LET new == readings'[last'.id]
           latest == LatestEarlierOn(new.meter_id, new.reading_date)
       IN  /\ ScenarioD
           /\ IF latest = {}
                THEN new.previous_reading = new.reading_value /\ new.consumption_kwh = 0
                ELSE \E p \in latest :
                       /\ new.previous_reading = readings[p].reading_value
                       /\ new.consumption_kwh
                            = Max(0, new.reading_value - readings[p].reading_value)]_vars

\* The last add_reading met two earlier readings of its meter and fell below
\* the later of them.
C22_Witness ==
  /\ last.op = "add_reading"
  /\ readings[last.id].reading_date = 3
  /\ \E p, q \in DOMAIN readings :
       /\ readings[p].meter_id = readings[last.id].meter_id /\ readings[p].reading_date = 1
       /\ readings[q].meter_id = readings[last.id].meter_id /\ readings[q].reading_date = 2
       /\ readings[p].reading_value < readings[last.id].reading_value
       /\ readings[q].reading_value > readings[last.id].reading_value
       /\ readings[last.id].previous_reading = readings[q].reading_value
  /\ readings[last.id].consumption_kwh = 0

\* ---------------------------------------------------------------- C23
\* The item the push loop is at is a meter whose create under its own id
\* fails: no document has its (user_id, meter_name, home_name), the listing
\* succeeds, and the id is in use remotely or the create call fails.
FirstCreateFails(net) ==
  /\ run # NoRun /\ run.dir = "push" /\ run.i < Len(run.items)
  /\ LET item == run.items[run.i + 1]
     IN  /\ "data" \in DOMAIN item /\ item.type = "meter"
         /\ net # "list"
         /\ ~\E m \in DOMAIN srv_meters :
               /\ srv_meters[m].user_id = item.data.user_id
               /\ srv_meters[m].meter_name = item.data.meter_name
               /\ srv_meters[m].home_name = item.data.home_name
         /\ item.data.id \in DOMAIN srv_meters \/ net \in {"create", "both"}

\* The step created exactly one document, under the generated id, holding the
\* pushed meter, the item was counted in success, the documents already
\* there are as before and the local store is untouched.
CreatedUnderFreshId ==
  LET item == run.items[run.i + 1]
      g == UniqueId(srv_meters)
  IN  /\ ~last'.raised
      /\ run'.success = run.success + 1 /\ run'.failed = run.failed
      /\ DOMAIN srv_meters' = DOMAIN srv_meters \cup {g}
      /\ g # item.data.id
      /\ srv_meters'[g].user_id = item.data.user_id
      /\ srv_meters'[g].meter_name = item.data.meter_name
      /\ srv_meters'[g].home_name = item.data.home_name
      /\ \A m \in DOMAIN srv_meters : srv_meters'[m] = srv_meters[m]
      /\ UNCHANGED <<store_vars, srv_readings>>

\* C23 as stated: whenever the create under the caller's id fails, the
\* document is created under a freshly generated id and the item is counted
\* as a success; no local record changes.
C23_CollisionAlwaysRecovered ==
  [][\A net \in NetFaults, now \in ServerTimes :
       SyncLocalToServerItem(net, now) /\ FirstCreateFails(net) =>
         CreatedUnderFreshId]_vars

\* C23: when the create under the caller's id fails and the second create
\* does not fail too, the document is created under a freshly generated id
\* and the item is counted as a success; when the second create fails as
\* well, the item is counted as failed and nothing is created. In both cases
\* every local record keeps its id and its links.
C23_CollisionRecoveredUnlessFallbackFails ==
  [][\A net \in NetFaults, now \in ServerTimes :
       SyncLocalToServerItem(net, now) /\ FirstCreateFails(net) =>
         IF net \in {"fallback", "both"}
           THEN /\ last'.raised
                /\ run'.failed = run.failed + 1 /\ run'.success = run.success
                /\ UNCHANGED <<store_vars, remote_vars>>
           ELSE CreatedUnderFreshId]_vars

\* The last item pushed was a local meter whose id another remote meter
\* holds: it succeeded, the local meter has its id, the remote copy a
\* generated one.
C23_Witness ==
  /\ last.op = "sync_item" /\ last.dir = "push" /\ ~last.raised
  /\ last.item.type = "meter"
  /\ last.item.data.id \in DOMAIN meters
  /\ last.item.data.id \in DOMAIN srv_meters
  /\ srv_meters[last.item.data.id].meter_name # last.item.data.meter_name
  /\ \E k \in 1..Len(GenIds) :
       /\ GenIds[k] \in DOMAIN srv_meters
       /\ srv_meters[GenIds[k]].by_push
       /\ srv_meters[GenIds[k]].meter_name = last.item.data.meter_name
       /\ srv_meters[GenIds[k]].user_id = last.item.data.user_id

\* ---------------------------------------------------------------- C24
\* The run is inside the loop of sync_local_to_server.
Pushing == run # NoRun /\ run.dir = "push"

\* C24: within one run of sync_local_to_server an item whose remote
\* operation fails is counted as failed and the loop moves on to the next
\* item: every item before the loop position has been attempted exactly once
\* (one recorded outcome each), a failing attempt changes neither store, and
\* the list being worked on stays as it is, so the failed item is not
\* attempted again before the run returns.
C24_FailedItemSkippedNotRetried ==
  [][/\ Pushing' =>
          /\ Len(run'.outcomes) = run'.i
          /\ run'.i <= Len(run'.items)
          /\ run'.success + run'.failed = run'.i
     /\ \A net \in NetFaults, now \in ServerTimes :
          SyncLocalToServerItem(net, now) /\ last'.raised =>
            /\ run'.i = run.i + 1
            /\ run'.failed = run.failed + 1 /\ run'.success = run.success
            /\ run'.outcomes = Append(run.outcomes, TRUE)
            /\ run'.items = run.items
            /\ UNCHANGED <<store_vars, remote_vars>>]_vars

\* A meter item failed on a network error, was skipped, and the item after
\* it was pushed successfully in the same run.
C24_Witness ==
  /\ last.op = "sync_item" /\ last.dir = "push" /\ ~last.raised
  /\ Pushing
  /\ run.i = 2
  /\ run.outcomes = <<TRUE, FALSE>>
  /\ run.failed = 1 /\ run.success = 1
  /\ "data" \in DOMAIN run.items[1] /\ run.items[1].type = "meter"
  /\ ~\E m \in DOMAIN srv_meters :
        /\ srv_meters[m].by_push
        /\ srv_meters[m].meter_name = run.items[1].data.meter_name

\* ------------------------------------------------ upload_to_server
\* DirectAppwriteService.delete_reading: delete_document of the id; a
\* document that does not exist, or a failing call, raises.
srv_delete_reading(srv, reading_id, fail) ==
  IF fail \/ reading_id \notin DOMAIN srv.readings
    THEN [raised |-> TRUE, srv |-> srv]
    ELSE [raised |-> FALSE,
          srv |-> [srv EXCEPT !.readings =
                     [r \in DOMAIN srv.readings \ {reading_id} |-> srv.readings[r]]]]

\* DirectAppwriteService.update_reading(reading_id, reading_value=,
\* reading_date=): update_document of the id; a document that does not
\* exist, or a failing call, raises.
srv_update_reading(srv, reading_id, reading_value, reading_date, fail) ==
  IF fail \/ reading_id \notin DOMAIN srv.readings
    THEN [raised |-> TRUE, srv |-> srv]
    ELSE [raised |-> FALSE,
          srv |-> [srv EXCEPT !.readings[reading_id] =
                     [@ EXCEPT !.reading_value = reading_value,
                               !.reading_date = reading_date]]]

\* The try block of upload_to_server for one change: the remote call the
\* change leads to, whether it raised, and whether the record id is
\* appended to synced_ids (only after a call that did not raise; a change
\* whose row is gone, or of another kind, leads to no call).
UploadChange(db, srv, change, user_id, net, now) ==
  LET rid == change.record_id
      none == [raised |-> FALSE, srv |-> srv, synced |-> FALSE]
      done(out) == [raised |-> out.raised, srv |-> out.srv, synced |-> ~out.raised]
  IN  IF change.table_name = "meters" /\ change.operation = "INSERT"
        THEN IF \E m \in get_meters(db, user_id) : m.id = rid
               THEN LET meter == ById(get_meters(db, user_id), rid)
                    IN  done(sync_meter(srv, meter.id, meter.home_name, meter.meter_name,
                                        meter.user_id, meter.created_at, net, now))
               ELSE none
      ELSE IF change.table_name = "readings" /\ rid \in DOMAIN db.readings
                /\ change.operation = "INSERT"
        THEN done(sync_reading(srv, rid, db.readings[rid].meter_id,
                               db.readings[rid].reading_value,
                               db.readings[rid].reading_date,
                               db.readings[rid].user_id, net))
      ELSE IF change.table_name = "readings" /\ rid \in DOMAIN db.readings
                /\ change.operation = "UPDATE"
        THEN done(srv_update_reading(srv, rid, db.readings[rid].reading_value,
                                     db.readings[rid].reading_date, net # "ok"))
      ELSE IF change.table_name = "readings" /\ change.operation = "DELETE"
        THEN done(srv_delete_reading(srv, rid, net # "ok"))
      ELSE none

\* upload_to_server is called: the unsynced changes are read.
UploadToServer ==
  /\ run = NoRun
  /\ run' = [proc |-> "upload_to_server", dir |-> "changes",
             changes |-> get_unsynced_changes(DB), i |-> 0,
             synced_ids |-> {}, synced_count |-> 0, delete_failed |-> {}]
  /\ last' = [op |-> "upload_to_server_call"]
  /\ UNCHANGED <<aux_vars, store_vars, remote_vars, comparison, result>>

\* One iteration of the loop of upload_to_server. delete_failed: the record
\* ids of the DELETE changes whose remote delete raised.
UploadToServerChange(net, now) ==
  /\ run # NoRun /\ run.proc = "upload_to_server"
  /\ run.i < Len(run.changes)
  /\ CanGenerate(srv_meters) /\ CanGenerate(srv_readings)
  /\ LET change == run.changes[run.i + 1]
         out == UploadChange(DB, SRV, change, CurrentUser, net, now)
     IN  /\ SetSRV(out.srv)
         /\ run' = [run EXCEPT
                      !.i = @ + 1,
                      !.synced_ids = IF out.synced THEN @ \cup {change.record_id} ELSE @,
                      !.synced_count = IF out.synced THEN @ + 1 ELSE @,
                      !.delete_failed = IF change.operation = "DELETE" /\ out.raised
                                          THEN @ \cup {change.record_id} ELSE @]
         /\ last' = [op |-> "upload_change", change |-> change, raised |-> out.raised]
  /\ UNCHANGED <<aux_vars, store_vars, comparison, result>>

\* The end of upload_to_server: mark_synced(synced_ids) when the list is
\* not empty; synced_count is returned.
UploadToServerReturn ==
  /\ run # NoRun /\ run.proc = "upload_to_server"
  /\ run.i = Len(run.changes)
  /\ SetDB(IF run.synced_ids # {} THEN mark_synced(DB, run.synced_ids) ELSE DB)
  /\ run' = NoRun
  /\ last' = [op |-> "upload_to_server", ret |-> run.synced_count,
              synced_ids |-> run.synced_ids, delete_failed |-> run.delete_failed]
  /\ UNCHANGED <<aux_vars, remote_vars, comparison, result>>

UploadLocalM1 == {MeterData("m1", "u1", "Main", "M1", IsoMicro(1))}
UploadLocalR1 == {ReadingData("r1", "u1", "m1", 2000, 1)}
UploadSrvM1 == {<<"m1", SrvMeter("u1", "M1", 1)>>}
UploadSrvR1 == {<<"r1", SrvReading("u1", "m1", 2000, 1)>>}
UploadNet == {"ok", "both"}

\* A session that starts with meter m1, maybe reading r1, and maybe their
\* remote copies from an earlier upload.
InitUpload ==
  \E c \in OptSeq(UploadLocalR1), g \in OptSet(UploadSrvR1) :
     \E a \in {<<x>> : x \in UploadLocalM1} :
       InitStores(a, c, UploadSrvM1, g)

NextUpload ==
  \/ run = NoRun /\ \E id \in {"r1", "r2"} : AddReading(id, "u1", "m1", 2000, 2)
  \/ run = NoRun /\ UpdateReading("r1", 2400, 1)
  \/ run = NoRun /\ \E id \in {"r1", "r2"} : DeleteReading(id)
  \/ UploadToServer
  \/ \E net \in UploadNet : UploadToServerChange(net, 1)
  \/ UploadToServerReturn

SpecUpload == InitUpload /\ [][NextUpload]_vars

\* ---------------------------------------------------------------- C25
\* C25: when upload_to_server has processed a DELETE change whose remote
\* delete failed, that change-log entry is marked settled when the upload
\* returns.
C25_FailedDeleteIsSettled ==
  last.op = "upload_to_server" =>
    \A k \in DOMAIN sync_log :
      sync_log[k].operation = "DELETE" /\ sync_log[k].record_id \in last.delete_failed =>
        sync_log[k].synced

\* ---------------------------------------------------------------- C26
\* C26: every step of sync_server_to_local on a meter item counts the item
\* as a success and leaves a local meter of that id carrying the remote home
\* label and meter label, whether the meter was absent (inserted) or present
\* (updated).
C26_PulledMeterInsertedOrUpdated ==
  [][/\ last'.op = "sync_item" /\ last'.dir = "pull"
     /\ "data" \in DOMAIN last'.item /\ last'.item.type = "meter"
     => /\ ~last'.raised
        /\ run'.success = run.success + 1
        /\ last'.item.data.id \in DOMAIN meters'
        /\ meters'[last'.item.data.id].home_name = last'.item.data.home_name
        /\ meters'[last'.item.data.id].meter_name = last'.item.data.meter_name]_vars

\* ------------------------------------------------ calls of sync_server_to_local
\* The reading items a caller can build from the documents of the server.
ServerReadingItems ==
  {[type |-> "reading", key |-> KeyOf(ReadingDoc(SRV, r)), data |-> ReadingDoc(SRV, r)] :
     r \in DOMAIN srv_readings}

\* sync_server_to_local(items) is called with one or two reading items.
SyncServerToLocal(items) ==
  /\ run = NoRun
  /\ Len(sync_log) < MaxLog
  /\ run' = AtBlock("pull", [EmptyComparison EXCEPT !.server_only = items], 2, {}, {})
  /\ last' = [op |-> "sync_server_to_local", items |-> items]
  /\ UNCHANGED <<aux_vars, store_vars, remote_vars, comparison, result>>

\* sync_server_to_local returns its results to that caller.
SyncServerToLocalReturn ==
  /\ run # NoRun /\ run.proc = "pull"
  /\ run.i = Len(run.items)
  /\ result' = [success |-> run.success, failed |-> run.failed, n |-> Len(run.items),
                dir |-> run.dir, outcomes |-> run.outcomes]
  /\ run' = NoRun
  /\ last' = [op |-> "sync_return", dir |-> run.dir]
  /\ UNCHANGED <<aux_vars, store_vars, remote_vars, comparison>>

PullLocalM1 == <<MeterData("m1", "u1", "Main", "M1", IsoMicro(1))>>
PullLocalR1 == {ReadingData("r1", "u1", "m1", 2000, 1)}
PullSrvM1 == {<<"m1", SrvMeter("u1", "M1", 1)>>}
PullSrvReadings ==
  {<<"s1", SrvReading("u1", "m1", 2003, 1)>>, <<"s2", SrvReading("u1", "m1", 2400, 2)>>,
   <<"r1", SrvReading("u1", "m1", 3000, 3)>>}

\* A session with meter m1 on both sides, maybe local reading r1, and one to
\* three readings of m1 on the server.
InitPull ==
  \E c \in OptSeq(PullLocalR1), g \in SUBSET PullSrvReadings :
     /\ g # {}
     /\ InitStores(PullLocalM1, c, PullSrvM1, g)

NextPull ==
  \/ \E a, b \in ServerReadingItems : SyncServerToLocal(<<a>>) \/ SyncServerToLocal(<<a, b>>)
  \/ SyncServerToLocalItem
  \/ SyncServerToLocalReturn
  \/ run = NoRun /\ \E id \in DOMAIN readings : DeleteReading(id)

SpecPull == InitPull /\ [][NextPull]_vars

\* ---------------------------------------------------------------- C27
\* The local store after the step, as one value.
DBAfter == [meters |-> meters', readings |-> readings', sync_log |-> sync_log']

\* C27: a step of sync_server_to_local on a reading item inserts the reading
\* (under its remote id, with its meter, value and date) only when no local
\* reading has the same meter and day; when one has, or when the insert
\* fails, the local store is unchanged. Applying the same item again to the
\* resulting store changes nothing.
C27_PulledReadingInsertedOncePerDay ==
  [][/\ last'.op = "sync_item" /\ last'.dir = "pull"
     /\ "data" \in DOMAIN last'.item /\ last'.item.type = "reading"
     => LET d == last'.item.data
            had == \E r \in DOMAIN readings :
                      /\ readings[r].meter_id = d.meter_id
                      /\ readings[r].reading_date = d.reading_date
        IN  /\ had => ~last'.raised /\ UNCHANGED store_vars
            /\ last'.raised => UNCHANGED store_vars
            /\ ~had /\ ~last'.raised =>
                 /\ DOMAIN readings' = DOMAIN readings \cup {d.id}
                 /\ d.id \notin DOMAIN readings
                 /\ \A r \in DOMAIN readings : readings'[r] = readings[r]
                 /\ readings'[d.id].meter_id = d.meter_id
                 /\ readings'[d.id].reading_value = d.reading_value
                 /\ readings'[d.id].reading_date = d.reading_date
                 /\ meters' = meters
            /\ \A prev \in PullPrevChoices(DBAfter, last'.item) :
                 PullItem(DBAfter, last'.item, prev).db = DBAfter]_vars

\* One call pulled the same reading item twice: the first step inserted it,
\* the second found the reading of that meter and day and changed nothing.
C27_Witness ==
  /\ last.op = "sync_item" /\ last.dir = "pull" /\ ~last.raised
  /\ last.item.type = "reading"
  /\ run # NoRun /\ run.i = 2 /\ run.items[1] = run.items[2]
  /\ run.outcomes = <<FALSE, FALSE>>
  /\ last.item.data.id \in DOMAIN readings
  /\ Cardinality({r \in DOMAIN readings :
                    /\ readings[r].meter_id = last.item.data.meter_id
                    /\ readings[r].reading_date = last.item.data.reading_date}) = 1
  /\ Cardinality({k \in DOMAIN sync_log :
                    sync_log[k].record_id = last.item.data.id}) = 1

\* ---------------------------------------------------------------- C28
\* C28: every entry of a comparison that sync_local_to_server or
\* sync_server_to_local is given carries the payload the loop reads
\* (item['data']), so no step fails for a missing payload field.
C28_EveryEntryCarriesItsPayload ==
  [][last'.op = "sync_item" /\ run.proc \in {"comprehensive", "upload_all"} =>
       "data" \in DOMAIN last'.item]_vars

\* ---------------------------------------------------------------- C29
\* C29: when cancel() was not called, the dict process_batch returns
\* accounts for every item exactly once: success_count plus the number of
\* failed_items is the number of items, an item is in failed_items exactly
\* if its operation returned success = False or raised, results has one
\* entry per success, and every operation was run to its end (one that
\* raised did not keep another from running).
C29_EveryItemAccountedOnce ==
  JustReturned /\ ~bp.cancel =>
    /\ bp.ret.success_count + Cardinality(bp.ret.failed_items) = bp.total
    /\ bp.ret.failed_items = {i \in 1..bp.total : bp.ops[i].outcome \in {"fail", "raise"}}
    /\ bp.ret.results = {i \in 1..bp.total : bp.ops[i].outcome = "ok"}
    /\ Cardinality(bp.ret.results) = bp.ret.success_count
    /\ \A i \in 1..bp.total : bp.ops[i].st = "done"

\* A call on two batches without cancel(): the first operation raised, the
\* second returned a failure, the other two succeeded.
C29_Witness ==
  /\ JustReturned /\ ~bp.cancel
  /\ bp.total = 4
  /\ bp.ops[1].outcome = "raise" /\ bp.ops[2].outcome = "fail"
  /\ bp.ops[3].outcome = "ok" /\ bp.ops[4].outcome = "ok"
  /\ bp.ret.success_count = 2
  /\ bp.ret.failed_items = {1, 2}

\* ---------------------------------------------------------------- C30
\* C30: a run started through run_sync_with_progress reaches a terminal
\* state by a call of finish_sync_progress; stated on the thread of the run:
\* a thread that has ended (and so can make no further call) has called
\* finish_sync_progress, its run being completed, cancelled or failed.
C30_EndedRunReachedTerminalState ==
  \A t \in ThreadIds :
    manual.threads[t].pc = "ended" =>
      manual.threads[t].phase \in {"completed", "cancelled", "failed"}

\* ------------------------------------------------ mutations during a sync run
ConcurrentLocalM1 == <<MeterData("m1", "u1", "Main", "M1", IsoMicro(1))>>
ConcurrentSrvM3 == {<<"m3", SrvMeter("u1", "M2", 1)>>}

\* A session with local meter m1 and maybe a remote meter m3.
InitConcurrent ==
  \E f \in OptSet(ConcurrentSrvM3) : InitStores(ConcurrentLocalM1, <<>>, f, {})

\* The startup sync, and the user submitting a reading while the sync thread
\* (a daemon thread beside the UI) is running.
NextConcurrent ==
  \/ Compare(NoFault)
  \/ PerformComprehensiveSync
  \/ UploadAllLocalDataToServer
  \/ \E net \in {"ok", "both"} : SyncLocalToServerItem(net, 1)
  \/ SyncServerToLocalItem
  \/ SyncReturn
  \/ FinishComprehensiveSync
  \/ run # NoRun /\ \E id \in {"r1", "r2"}, d \in {1, 2} :
                       AddReading(id, "u1", "m1", 2000, d)

SpecConcurrent == InitConcurrent /\ [][NextConcurrent]_vars

\* ---------------------------------------------------------------- C31
\* C31: when the settling step of a sync run follows a local mutation made
\* while the run was in progress, the change-log entry of that mutation is
\* still unsettled after the step, unless the run pushed that record.
C31_MutationDuringRunStaysUnsettled ==
  [][/\ last.op = "add_reading" /\ run # NoRun
     /\ last'.op = "mark_synced"
     => \A k \in DOMAIN sync_log' :
          sync_log'[k].record_id = last.id /\ last.id \notin run.pushed =>
            ~sync_log'[k].synced]_vars

\* ---------------------------------------------------------------- C32
\* C32: in every dict process_batch returns, cancelled or not, success_count
\* is the number of items whose operation ended with success, and no such
\* item is in failed_items.
C32_SuccessfulItemNeverReportedFailed ==
  JustReturned =>
    /\ bp.ret.success_count
         = Cardinality({i \in 1..bp.total : bp.ops[i].outcome = "ok"})
    /\ \A i \in bp.ret.failed_items : bp.ops[i].outcome # "ok"

\* ------------------------------------------------ SyncBatchProcessor.sync_meters
\* The two calls sync_meter makes, as the workers of the pool make them.
\* The lookup: list_documents on (user_id, meter_name, home_name).
ExistingMeters(srv, meter) ==
  {m \in DOMAIN srv.meters :
     /\ srv.meters[m].user_id = meter.user_id
     /\ srv.meters[m].meter_name = meter.meter_name
     /\ srv.meters[m].home_name = meter.home_name}

\* The create: under meter_id, and under ID.unique() when that fails; a
\* failing second create is re-raised.
create_meter(srv, meter, net, now) ==
  LET meter_data == [user_id |-> meter.user_id, home_name |-> meter.home_name,
                     meter_name |-> meter.meter_name, created_at |-> meter.created_at,
                     updatedAt |-> ServerStamp(now), by_push |-> TRUE]
  IN  IF meter.id \notin DOMAIN srv.meters /\ net \notin {"create", "both"}
        THEN [raised |-> FALSE,
              srv |-> [srv EXCEPT !.meters = create_document(@, meter.id, meter_data)]]
      ELSE IF net \in {"fallback", "both"} THEN [raised |-> TRUE, srv |-> srv]
      ELSE [raised |-> FALSE,
            srv |-> [srv EXCEPT !.meters =
                       create_document(@, UniqueId(srv.meters), meter_data)]]

\* The meters given to sync_meters: two local meters of one owner with the
\* same home and meter label.
RaceMeters ==
  <<MeterData("m1", "u1", "Main", "M1", IsoMicro(1)),
    MeterData("m2", "u1", "Main", "M1", IsoMicro(2))>>

\* meter_operation in its worker, first half: sync_meter lists the existing
\* documents. A failing call makes the operation return success = False, a
\* document found makes it return success = True; else the create follows.
MeterOperationList(i, fail) ==
  /\ bp.pc \in {"collect", "shutdown"}
  /\ i \in OpsIn(bp, "running")
  /\ bp.ops[i].outcome = "none"
  /\ bp' = IF fail
             THEN [bp EXCEPT !.ops[i].st = "done", !.ops[i].outcome = "fail"]
           ELSE IF ExistingMeters(SRV, RaceMeters[i]) # {}
             THEN [bp EXCEPT !.ops[i].st = "done", !.ops[i].outcome = "ok"]
           ELSE [bp EXCEPT !.ops[i].outcome = "absent"]
  /\ last' = [op |-> "list", item |-> i, cancel |-> bp.cancel]
  /\ UNCHANGED <<store_vars, remote_vars, sync_vars, manual, conn>>

\* meter_operation in its worker, second half: sync_meter creates the
\* document; the operation returns success = True, or False when the create
\* raised.
MeterOperationCreate(i, net) ==
  /\ bp.pc \in {"collect", "shutdown"}
  /\ i \in OpsIn(bp, "running")
  /\ bp.ops[i].outcome = "absent"
  /\ CanGenerate(srv_meters)
  /\ LET out == create_meter(SRV, RaceMeters[i], net, 1)
     IN  /\ SetSRV(out.srv)
         /\ bp' = [bp EXCEPT !.ops[i].st = "done",
                             !.ops[i].outcome = IF out.raised THEN "fail" ELSE "ok"]
  /\ last' = [op |-> "create", item |-> i, cancel |-> bp.cancel]
  /\ UNCHANGED <<store_vars, sync_vars, manual, conn>>

\* The remote collection holds no meter, or one of another label.
InitRace ==
  \E f \in OptSet({<<"m3", SrvMeter("u1", "M2", 1)>>}) :
     /\ meters = AddMeters(EmptyDB, RaceMeters).meters
     /\ readings = EmptyFn
     /\ sync_log = AddMeters(EmptyDB, RaceMeters).sync_log
     /\ srv_meters = FnOf(f)
     /\ srv_readings = EmptyFn
     /\ comparison = NoComparison
     /\ run = NoRun
     /\ result = NoResult
     /\ last = [op |-> "init"]
     /\ bp = NoBatch
     /\ manual = NoThreads
     /\ conn = NoConn

NextRace ==
  \/ Cancel
  \/ \E total \in 1..Len(RaceMeters) : ProcessBatch(total)
  \/ LoopHead
  \/ Submit
  \/ WorkerStart
  \/ \E i \in 1..Len(RaceMeters), fail \in BOOLEAN : MeterOperationList(i, fail)
  \/ \E i \in 1..Len(RaceMeters), net \in {"ok", "create", "both"} :
        MeterOperationCreate(i, net)
  \/ \E i \in 1..Len(RaceMeters) : Collect(i)
  \/ ExitExecutor
  \/ Return

SpecRace == InitRace /\ [][NextRace]_vars

\* ---------------------------------------------------------------- C33
\* C33: while and after sync_meters pushes two local meters of the same
\* (owner, home label, meter label) in one batch, the remote collection holds
\* at most one meter of that natural key.
C33_OneRemoteMeterPerNaturalKey ==
  \A a, b \in DOMAIN srv_meters :
    /\ srv_meters[a].user_id = srv_meters[b].user_id
    /\ srv_meters[a].home_name = srv_meters[b].home_name
    /\ srv_meters[a].meter_name = srv_meters[b].meter_name
    => a = b

\* ---------------------------------------------------------------- C34
\* The local record an entry of a comparison stands for.
LocalSide(item) == IF "data" \in DOMAIN item THEN item.data ELSE item.local_data

\* A remote document has the natural key of the item's record.
KeyExistsRemotely(item) ==
  IF item.type = "meter"
    THEN \E m \in DOMAIN srv_meters :
           /\ srv_meters[m].user_id = LocalSide(item).user_id
           /\ srv_meters[m].home_name = LocalSide(item).home_name
           /\ srv_meters[m].meter_name = LocalSide(item).meter_name
    ELSE \E r \in DOMAIN srv_readings :
           /\ srv_readings[r].user_id = LocalSide(item).user_id
           /\ srv_readings[r].meter_id = LocalSide(item).meter_id
           /\ srv_readings[r].reading_date = LocalSide(item).reading_date

\* C34: a push of an item whose natural key exists remotely, with every
\* remote call answering, leaves every remote document unchanged and is
\* counted as a success; so it is for the local side of a value conflict.
C34_PushOfExistingKeyIsUnchangedSuccess ==
  [][\A now \in ServerTimes :
       /\ SyncLocalToServerItem("ok", now)
       /\ KeyExistsRemotely(run.items[run.i + 1])
       => /\ UNCHANGED remote_vars
          /\ ~last'.raised
          /\ run'.success = run.success + 1]_vars

\* ---------------------------------------------------------------- C35
\* The record ids get_unsynced_changes lists for a table with an INSERT.
UnsyncedInserts(log, tbl) ==
  {log[k].record_id : k \in {x \in DOMAIN log :
      /\ ~log[x].synced /\ log[x].operation = "INSERT" /\ log[x].table_name = tbl}}

\* C35: a step of sync_server_to_local that inserts a meter or a reading
\* appends one unsettled INSERT change-log entry for it, as add_meter /
\* add_reading do for a record the user creates: after the step
\* get_unsynced_changes lists the pulled record.
C35_PulledRecordIsLoggedUnsettled ==
  [][last'.op = "sync_item" /\ last'.dir = "pull" /\ ~last'.raised =>
       LET d == last'.item.data
           tbl == IF last'.item.type = "meter" THEN "meters" ELSE "readings"
           inserted == IF last'.item.type = "meter"
                         THEN d.id \notin DOMAIN meters /\ d.id \in DOMAIN meters'
                         ELSE d.id \notin DOMAIN readings /\ d.id \in DOMAIN readings'
       IN  IF inserted
             THEN /\ sync_log' = Append(sync_log, LogEntry("INSERT", tbl, d.id))
                  /\ d.id \in UnsyncedInserts(sync_log', tbl)
             ELSE sync_log' = sync_log]_vars

\* A download put a remote meter and one of its readings into the local
\* store; both are listed as unsynced INSERTs.
C35_Witness ==
  /\ last.op = "sync_item" /\ last.dir = "pull" /\ ~last.raised
  /\ last.item.type = "reading"
  /\ last.item.data.id \in DOMAIN readings
  /\ last.item.data.id \in UnsyncedInserts(sync_log, "readings")
  /\ last.item.data.id \in DOMAIN srv_readings
  /\ \E m \in DOMAIN meters :
       /\ m \in DOMAIN srv_meters /\ ~srv_meters[m].by_push
       /\ m = last.item.data.meter_id
       /\ m \in UnsyncedInserts(sync_log, "meters")
       /\ \E k \in DOMAIN run.outcomes :
            ~run.outcomes[k] /\ run.items[k].type = "meter" /\ run.items[k].data.id = m

\* ---------------------------------------------------------------- C36
\* C36: when the listing of the remote meters fails (and the local store is
\* read), compare_databases compares against an empty remote side: local_only
\* holds one entry per meter of the owner and one per (meter, day) key of
\* their readings, each with its local payload, and the five other lists are
\* empty.
C36_FailedListingMeansAllLocalOnly ==
  Compared /\ last.fault.meters /\ ~last.fault.local =>
    /\ ~last.raised
    /\ Len(comparison.local_only)
         = Cardinality(OwnMeterIds) + Cardinality(Keys(OwnReadings))
    /\ \A id \in OwnMeterIds :
         \E k \in 1..Len(comparison.local_only) :
           /\ comparison.local_only[k].type = "meter"
           /\ comparison.local_only[k].id = id
           /\ comparison.local_only[k].data = ById(get_meters(DB, CurrentUser), id)
    /\ \A key \in Keys(OwnReadings) :
         \E k \in 1..Len(comparison.local_only) :
           /\ comparison.local_only[k].type = "reading"
           /\ comparison.local_only[k].key = key
           /\ comparison.local_only[k].data \in OwnReadings
           /\ KeyOf(comparison.local_only[k].data) = key
    /\ comparison.server_only = <<>> /\ comparison.local_newer = <<>>
    /\ comparison.server_newer = <<>> /\ comparison.in_sync = <<>>
    /\ comparison.conflicts = <<>>

\* The listing failed while the remote side holds a copy of a local meter
\* and a reading of the same meter and day as a local one: both local
\* records are reported local_only.
C36_Witness ==
  /\ Compared /\ last.fault.meters /\ ~last.fault.local
  /\ \E r \in OwnReadings :
       /\ \E s \in DOMAIN srv_readings :
            /\ srv_readings[s].meter_id = r.meter_id
            /\ srv_readings[s].reading_date = r.reading_date
       /\ r.meter_id \in DOMAIN srv_meters
       /\ r.meter_id \in MeterIdsIn(comparison, "local_only")
       /\ KeyOf(r) \in ReadingKeysIn(comparison, "local_only")
  /\ Len(comparison.local_only) >= 3


\* ------------------------------------------------ C37
\* A process_batch call of a non-empty list made while cancel_event is set.
PresetCall(b) == b.pc \in {"head", "return", "returned"} /\ b.total > 0 /\ b.preset

\* C37: cancellation of a BatchProcessor is permanent. No step clears
\* cancel_event once it is set, and every process_batch call of a non-empty
\* list made after cancel() starts no batch, calls no operation, and returns
\* success_count = 0, no failed item, and cancelled = True.
C37_CancellationIsPermanent ==
  [][/\ bp.cancel => bp'.cancel
     /\ PresetCall(bp') =>
          /\ bp'.cancel
          /\ bp'.started = {}
          /\ \A i \in 1..bp'.total : bp'.ops[i] = NewOp
          /\ bp'.pc = "returned" =>
               /\ bp'.ret.success_count = 0
               /\ bp'.ret.failed_items = {}
               /\ bp'.ret.cancelled]_vars

\* A call of a non-empty list on a cancelled processor has returned.
C37_Witness ==
  /\ PresetCall(bp)
  /\ bp.pc = "returned"
  /\ bp.total >= 2
  /\ last.op = "return"


\* ------------------------------------------------ C38
\* In a list of entries every meter entry stands before every reading entry.
MetersBeforeReadings(items) ==
  \A j, k \in 1..Len(items) :
    items[j].type = "meter" /\ items[k].type = "reading" => j < k

\* sync_local_to_server is working on the local_only list of a comparison.
PushingLocalOnly ==
  /\ Pushing
  /\ run.proc \in {"comprehensive", "upload_all"}
  /\ Blocks[run.block] = "local_only"

\* C38: in the local_only list of a comparison every meter entry precedes
\* every reading entry, and sync_local_to_server attempts the items in list
\* order, one attempt per position: when a reading of a local-only meter has
\* been attempted, the entry of its meter stands earlier in the list and has
\* been attempted before it.
C38_LocalOnlyMeterPushedBeforeItsReadings ==
  /\ comparison # NoComparison => MetersBeforeReadings(comparison.local_only)
  /\ PushingLocalOnly =>
       /\ run.items = run.cmp.local_only
       /\ MetersBeforeReadings(run.items)
       /\ Len(run.outcomes) = run.i
       /\ last.op = "sync_item" => last.item = run.items[run.i]
       /\ \A k \in 1..run.i :
            run.items[k].type = "reading" =>
              \A j \in 1..Len(run.items) :
                /\ run.items[j].type = "meter"
                /\ run.items[j].id = run.items[k].data.meter_id
                => j < k

\* A local-only meter and a reading of it have both been attempted.
C38_Witness ==
  /\ PushingLocalOnly
  /\ last.op = "sync_item"
  /\ last.item.type = "reading"
  /\ \E j \in 1..run.i :
       /\ run.items[j].type = "meter"
       /\ run.items[j].id = last.item.data.meter_id
       /\ ~run.outcomes[j]


\* ------------------------------------------------ one LocalDatabase call, statement by statement
\* sqlite3.connect(db_path) with the default isolation level: INSERT, UPDATE
\* and DELETE open a transaction, and the file other connections read keeps
\* the committed tables until conn.commit().
\* Variant: a connection in autocommit mode, every statement is persisted
\* as it is executed.
Persisted_Autocommit(db, pending) == pending

\* The tables the file holds while a connection has executed statements up
\* to `pending` without committing.
Persisted(db, pending) == db

\* The connection after connect() and the SELECTs of the call: done is what
\* the two statements of the call write, pending what it has written so far;
\* dup: the INSERT of the row violates the primary key.
Open(call, id, done, dup) ==
  [pc |-> "row", call |-> call, id |-> id, done |-> done, pending |-> DB, dup |-> dup]

\* add_meter up to the existence test: an id already held closes the
\* connection and returns.
BeginAddMeter(id, u, h, n, c) ==
  /\ conn = NoConn
  /\ Len(sync_log) < MaxLog
  /\ conn' = IF id \in DOMAIN meters THEN NoConn
             ELSE Open("add_meter", id, add_meter(DB, MeterData(id, u, h, n, c)), FALSE)
  /\ last' = [op |-> "add_meter", id |-> id, at |-> "connect", raised |-> FALSE]
  /\ UNCHANGED <<store_vars, remote_vars, sync_vars, bp, manual>>

\* add_reading up to the previous-reading query.
BeginAddReading(id, u, m, v, d) ==
  /\ conn = NoConn
  /\ Len(sync_log) < MaxLog
  /\ m \in DOMAIN meters
  /\ \E prev \in PrevChoices(DB, m, d, id) :
       conn' = Open("add_reading", id,
                    add_reading(DB, ReadingData(id, u, m, v, d), prev),
                    id \in DOMAIN readings)
  /\ last' = [op |-> "add_reading", id |-> id, at |-> "connect", raised |-> FALSE]
  /\ UNCHANGED <<store_vars, remote_vars, sync_vars, bp, manual>>

\* update_reading up to the previous-reading query: an unknown id closes the
\* connection and returns False.
BeginUpdateReading(id, v, d) ==
  /\ conn = NoConn
  /\ Len(sync_log) < MaxLog
  /\ IF id \notin DOMAIN readings
       THEN conn' = NoConn
       ELSE \E prev \in PrevChoices(DB, readings[id].meter_id, d, id) :
              conn' = Open("update_reading", id, update_reading(DB, id, v, d, prev), FALSE)
  /\ last' = [op |-> "update_reading", id |-> id, at |-> "connect", raised |-> FALSE]
  /\ UNCHANGED <<store_vars, remote_vars, sync_vars, bp, manual>>

\* delete_reading up to the COUNT(*) test: an unknown id closes the
\* connection and returns False.
BeginDeleteReading(id) ==
  /\ conn = NoConn
  /\ Len(sync_log) < MaxLog
  /\ conn' = IF id \notin DOMAIN readings THEN NoConn
             ELSE Open("delete_reading", id, delete_reading(DB, id), FALSE)
  /\ last' = [op |-> "delete_reading", id |-> id, at |-> "connect", raised |-> FALSE]
  /\ UNCHANGED <<store_vars, remote_vars, sync_vars, bp, manual>>

\* cursor.execute of the statement that writes the row (INSERT, UPDATE or
\* DELETE) succeeds.
ExecuteRow ==
  /\ conn.pc = "row"
  /\ ~conn.dup
  /\ LET pending == [conn.done EXCEPT !.sync_log = conn.pending.sync_log]
     IN  /\ conn' = [conn EXCEPT !.pc = "log", !.pending = pending]
         /\ SetDB(Persisted(DB, pending))
  /\ last' = [op |-> conn.call, id |-> conn.id, at |-> "row", raised |-> FALSE]
  /\ UNCHANGED <<remote_vars, sync_vars, bp, manual>>

\* cursor.execute of INSERT INTO sync_log succeeds.
ExecuteLog ==
  /\ conn.pc = "log"
  /\ conn' = [conn EXCEPT !.pc = "commit", !.pending = conn.done]
  /\ SetDB(Persisted(DB, conn.done))
  /\ last' = [op |-> conn.call, id |-> conn.id, at |-> "log", raised |-> FALSE]
  /\ UNCHANGED <<remote_vars, sync_vars, bp, manual>>

\* conn.commit(); conn.close(); return.
Commit ==
  /\ conn.pc = "commit"
  /\ SetDB(conn.pending)
  /\ conn' = NoConn
  /\ last' = [op |-> conn.call, id |-> conn.id, at |-> "commit", raised |-> FALSE]
  /\ UNCHANGED <<remote_vars, sync_vars, bp, manual>>

\* The next statement, or the commit, raises (sqlite3.IntegrityError for a
\* duplicate id, sqlite3.OperationalError for a locked or full database):
\* the exception leaves the method, and the connection is closed without a
\* commit when it is collected, which rolls its transaction back.
Raise ==
  /\ conn # NoConn
  /\ SetDB(Persisted(DB, conn.pending))
  /\ conn' = NoConn
  /\ last' = [op |-> conn.call, id |-> conn.id, at |-> conn.pc, raised |-> TRUE]
  /\ UNCHANGED <<remote_vars, sync_vars, bp, manual>>

CommitValues == {2000, 2100}
CommitDates == {1, 2}

NextCommit ==
  \/ \E id \in {"m1", "m2"} : BeginAddMeter(id, "u1", "Main", "M1", IsoMicro(1))
  \/ \E id \in {"r1", "r2"}, v \in CommitValues, d \in CommitDates :
       BeginAddReading(id, "u1", "m1", v, d)
  \/ \E id \in {"r1", "r2"}, v \in CommitValues, d \in CommitDates :
       BeginUpdateReading(id, v, d)
  \/ \E id \in {"r1", "r2"} : BeginDeleteReading(id)
  \/ ExecuteRow
  \/ ExecuteLog
  \/ Commit
  \/ Raise

SpecCommit == InitMeters /\ [][NextCommit]_vars

\* ------------------------------------------------ C39
\* The log entry a call writes.
CallEntry(c) ==
  LogEntry(CASE c.call \in {"add_meter", "add_reading"} -> "INSERT"
             [] c.call = "update_reading" -> "UPDATE"
             [] OTHER -> "DELETE",
           IF c.call = "add_meter" THEN "meters" ELSE "readings",
           c.id)

\* C39: a local mutation and its change-log entry become visible together.
\* The tables of the file change only in the step that commits add_meter,
\* add_reading, update_reading or delete_reading, and that step brings the
\* row change of the call and exactly its one log entry; a call that fails
\* before its commit, whatever it had executed, leaves rows and log as they
\* were.
C39_RowAndLogEntryCommittedTogether ==
  [][/\ (sync_log' # sync_log \/ meters' # meters \/ readings' # readings) =>
          /\ conn.pc = "commit"
          /\ last'.at = "commit"
          /\ ~last'.raised
     /\ (conn.pc = "commit" /\ ~last'.raised) =>
          /\ sync_log' = Append(sync_log, CallEntry(conn))
          /\ meters' = conn.done.meters
          /\ readings' = conn.done.readings
     /\ last'.raised => UNCHANGED store_vars]_vars

\* A call failed after it had executed both of its statements.
C39_Witness ==
  /\ last.op \in {"add_reading", "delete_reading"}
  /\ last.raised
  /\ last.at = "commit"
  /\ Len(sync_log) >= 2
  /\ \E r \in DOMAIN readings : r # last.id


====
